---- MODULE Spec2Model ----
(***************************************************************************)
(* grafana2matrix: the alert state and notification engine.                *)
(*                                                                         *)
(* The program modelled is the webhook adapter of src/README.md:297-567    *)
(* (index.js) together with src/src/db.js (the SQLite store),              *)
(* src/src/util.js (mention policy) and src/src/matrix.js (transport).     *)
(*                                                                         *)
(* Execution model: Node.js, one thread.  A handler runs without           *)
(* interruption up to its next `await` on network I/O; the store calls are *)
(* synchronous.  Each action below is one such uninterrupted segment.      *)
(***************************************************************************)
EXTENDS Integers, Sequences, FiniteSets, TLC

(***************************************************************************)
(* Bounds of the model.                                                    *)
(***************************************************************************)
MaxBatch == 2       \* alerts per webhook batch
MaxEventIds == 2    \* Matrix event ids the homeserver hands out
MaxTicks == 2       \* runs of the one-minute timer
MaxOverlap == 1     \* alerts of a batch that arrives while a request is in flight
MaxBrief == 1       \* alerts per batch where deliveries are kept short
MaxDays == 2        \* days on which the timer is followed through its schedule

(***************************************************************************)
(* Program constants.                                                      *)
(***************************************************************************)
Minute == 60000     \* util.js:59, (1000 * 60) milliseconds
OldModeLimit == 10000   \* util.js:165, a last_sent below it is a minute of day

Day == 24 * 60 * Minute         \* one UTC day
Epoch == 2 * Day + 10 * Minute  \* wall clock when the process starts (00:10 UTC)

Fingerprints == {"a", "b"}
Statuses == {"firing", "resolved"}
Handlers == {"w1", "w2"}        \* concurrently running webhook requests
Types == {"primary", "secondary"}

(***************************************************************************)
(* Incoming alerts.  The fingerprint is a hash of the label set, so the    *)
(* labels are given by the fingerprint; annotations vary between           *)
(* deliveries.                                                             *)
(***************************************************************************)
LabelsOf(fp) ==
    IF fp = "a"
    THEN [alertname |-> "HighCPU", host |-> "db1", severity |-> "CRIT"]
    ELSE [alertname |-> "DiskFull", host |-> "web1", severity |-> "warning"]

Summaries == {"s1", "s2"}

Alert(fp, status, summary) ==
    [fingerprint |-> fp, status |-> status, labels |-> LabelsOf(fp),
     annotations |-> [summary |-> summary], startsAt |-> Epoch]

IncomingAlerts ==
    {Alert("a", "firing", s) : s \in Summaries}
    \cup {Alert("b", "firing", "s1")}
    \cup {Alert(fp, "resolved", "s1") : fp \in Fingerprints}

Batches == UNION {[1..n -> IncomingAlerts] : n \in 0..MaxBatch}

\* the alert object after `alert.mentionsSent = ...`
WithMentionsSent(alert, ms) ==
    [fingerprint |-> alert.fingerprint, status |-> alert.status,
     labels |-> alert.labels, annotations |-> alert.annotations,
     startsAt |-> alert.startsAt, mentionsSent |-> ms]

\* the alert object as Grafana delivered it
Payload(alert) ==
    [fingerprint |-> alert.fingerprint, status |-> alert.status,
     labels |-> alert.labels, annotations |-> alert.annotations,
     startsAt |-> alert.startsAt]

\* the part of an alert object that is still read after the dedup loop
Ref(alert) == [fingerprint |-> alert.fingerprint, status |-> alert.status]

RECURSIVE Refs(_)
Refs(alerts) ==
    IF alerts = <<>> THEN <<>> ELSE <<Ref(Head(alerts))>> \o Refs(Tail(alerts))

FingerprintsOf(alerts) == {alerts[i].fingerprint : i \in DOMAIN alerts}

(***************************************************************************)
(* The store (db.js).  A table is the set of its rows; the operators take  *)
(* the table and return the table after the statement.                     *)
(***************************************************************************)
hasActiveAlert(tbl, id) == \E r \in tbl : r.id = id

getActiveAlert(tbl, id) == (CHOOSE r \in tbl : r.id = id).data

getAllActiveAlerts(tbl) == {r.data : r \in tbl}

\* plain INSERT: a second row under the same id
setActiveAlert_insert(tbl, id, data) == tbl \cup {[id |-> id, data |-> data]}

\* INSERT OR IGNORE: the row of an id that is stored is left as it is
setActiveAlert_ignore(tbl, id, data) ==
    IF \E r \in tbl : r.id = id THEN tbl
    ELSE tbl \cup {[id |-> id, data |-> data]}

\* INSERT OR REPLACE INTO active_alerts (id PRIMARY KEY)
setActiveAlert(tbl, id, data) ==
    {r \in tbl : r.id # id} \cup {[id |-> id, data |-> data]}

deleteActiveAlert(tbl, id) == {r \in tbl : r.id # id}

hasMessageMap(map, eventId) == \E r \in map : r.event_id = eventId

getAlertIdFromEvent(map, eventId) ==
    (CHOOSE r \in map : r.event_id = eventId).alert_id

\* INSERT OR REPLACE INTO message_map (event_id PRIMARY KEY)
setMessageMap(map, eventId, alertId) ==
    {r \in map : r.event_id # eventId}
    \cup {[event_id |-> eventId, alert_id |-> alertId]}

\* DELETE FROM message_map WHERE alert_id = ?
deleteMessageMapByAlertId(map, alertId) == {r \in map : r.alert_id # alertId}

\* rows of the two tables that belong to one fingerprint
AlertRows(tbl, id) == {r.data : r \in {x \in tbl : x.id = id}}
MapRows(map, id) == {r \in map : r.alert_id = id}

(***************************************************************************)
(* Mention policy (util.js).  The mention config file maps a host to its   *)
(* policy; a key that the JSON object lacks is `undefined`.  A delay or    *)
(* repeat key whose value is null takes the branches of a key that is      *)
(* lacking (null < 0 and duration < null are false, util.js:78 tests       *)
(* both), so it is written as a key that is lacking.                       *)
(***************************************************************************)
OncePolicy ==
    [primary |-> {"@alice"}, secondary |-> {"@bob"},
     delay_crit_primary |-> 1, repeat_crit_primary |-> -1,
     delay_crit_secondary |-> -1,
     delay_warn_primary |-> 0, delay_warn_secondary |-> -1]

MentionConfigs == {[db1 |-> OncePolicy]}

\* the primary contact of a critical alert every two minutes
RepeatPolicy ==
    [primary |-> {"@alice"}, secondary |-> {"@bob"},
     delay_crit_primary |-> 0, repeat_crit_primary |-> 2,
     delay_crit_secondary |-> -1,
     delay_warn_primary |-> -1, delay_warn_secondary |-> -1]

toUpperCase(s) ==
    CASE s = "crit" \/ s = "Crit" -> "CRIT"
      [] s = "critical" \/ s = "Critical" -> "CRITICAL"
      [] s = "warn" \/ s = "Warn" -> "WARN"
      [] s = "warning" \/ s = "Warning" -> "WARNING"
      [] s = "info" -> "INFO"
      [] s = "critic" -> "CRITIC"
      [] OTHER -> s

\* only the short form accepted
isCritical_short(severity) == toUpperCase(severity) = "CRIT"

isCritical(severity) ==
    toUpperCase(severity) = "CRITICAL" \/ toUpperCase(severity) = "CRIT"

isWarn(severity) ==
    toUpperCase(severity) = "WARNING" \/ toUpperCase(severity) = "WARN"

\* a.labels[label] || a.annotations[label] || defaultValue
getAlertValue(a, label, defaultValue) ==
    IF label \in DOMAIN a.labels THEN a.labels[label]
    ELSE IF label \in DOMAIN a.annotations THEN a.annotations[label]
    ELSE defaultValue

RepeatKey(class, type) ==
    CASE class = "crit" /\ type = "primary" -> "repeat_crit_primary"
      [] class = "crit" /\ type = "secondary" -> "repeat_crit_secondary"
      [] class = "warn" /\ type = "primary" -> "repeat_warn_primary"
      [] class = "warn" /\ type = "secondary" -> "repeat_warn_secondary"

DelayKey(class, type) ==
    CASE class = "crit" /\ type = "primary" -> "delay_crit_primary"
      [] class = "crit" /\ type = "secondary" -> "delay_crit_secondary"
      [] class = "warn" /\ type = "primary" -> "delay_warn_primary"
      [] class = "warn" /\ type = "secondary" -> "delay_warn_secondary"

LastSentKey(type) ==
    IF type = "primary" THEN "last_sent_primary" ELSE "last_sent_secondary"

\* alert.mentionsSent?.[lastSentKey] || 0
LastSent(alert, type) ==
    IF "mentionsSent" \in DOMAIN alert
       /\ LastSentKey(type) \in DOMAIN alert.mentionsSent
    THEN alert.mentionsSent[LastSentKey(type)]
    ELSE 0

\* alert.mentionsSent[lastSentKey] = now
MarkSent(alert, type, t) ==
    WithMentionsSent(alert,
        [k \in DOMAIN alert.mentionsSent \cup {LastSentKey(type)} |->
            IF k = LastSentKey(type) THEN t ELSE alert.mentionsSent[k]])

SeverityClass(alert) ==
    LET severity == toUpperCase(getAlertValue(alert, "severity", "UNKNOWN"))
    IN  IF isCritical(severity) THEN "crit"
        ELSE IF isWarn(severity) THEN "warn" ELSE "none"

\* without a repeat value the mention fires in both contexts
checkMention_anyContext(conf, alert, type, strategy, t) ==
    LET class == SeverityClass(alert)
        hasDelay == class # "none" /\ DelayKey(class, type) \in DOMAIN conf
        hasRepeat == class # "none" /\ RepeatKey(class, type) \in DOMAIN conf
        delay == IF class = "none" THEN -1 ELSE conf[DelayKey(class, type)]
        repeat == conf[RepeatKey(class, type)]
        no == [fired |-> FALSE, alert |-> alert]
        yes == [fired |-> TRUE, alert |-> alert]
    IN  IF class = "none" THEN no
        ELSE IF hasDelay /\ delay < 0 THEN no
        ELSE IF hasDelay /\ (t - alert.startsAt) < delay * Minute THEN no
        ELSE IF ~hasRepeat THEN yes
        ELSE IF repeat = 0 /\ strategy = "loop" THEN yes
        ELSE IF repeat < 0 THEN [no EXCEPT !.fired = (LastSent(alert, type) = 0)]
        ELSE IF (t - LastSent(alert, type)) >= repeat * Minute
             THEN [fired |-> TRUE, alert |-> MarkSent(alert, type, t)]
        ELSE no

\* the threshold compared with `<=`: not due at exactly the delay
checkMention_afterDelay(conf, alert, type, strategy, t) ==
    LET class == SeverityClass(alert)
        hasDelay == class # "none" /\ DelayKey(class, type) \in DOMAIN conf
        hasRepeat == class # "none" /\ RepeatKey(class, type) \in DOMAIN conf
        delay == IF class = "none" THEN -1 ELSE conf[DelayKey(class, type)]
        repeat == conf[RepeatKey(class, type)]
        no == [fired |-> FALSE, alert |-> alert]
        yes == [fired |-> TRUE, alert |-> alert]
    IN  IF class = "none" THEN no
        ELSE IF hasDelay /\ delay < 0 THEN no
        ELSE IF hasDelay /\ (t - alert.startsAt) <= delay * Minute THEN no
        ELSE IF ~hasRepeat THEN [no EXCEPT !.fired = (strategy = "webhook")]
        ELSE IF repeat = 0 /\ strategy = "loop" THEN yes
        ELSE IF repeat < 0 THEN [no EXCEPT !.fired = (LastSent(alert, type) = 0)]
        ELSE IF (t - LastSent(alert, type)) >= repeat * Minute
             THEN [fired |-> TRUE, alert |-> MarkSent(alert, type, t)]
        ELSE no

\* checkMention(conf, alert, type, strategy) at wall clock t: whether the type
\* is to be mentioned, and the alert object as the call leaves it
checkMention(conf, alert, type, strategy, t) ==
    LET class == SeverityClass(alert)
        hasDelay == class # "none" /\ DelayKey(class, type) \in DOMAIN conf
        hasRepeat == class # "none" /\ RepeatKey(class, type) \in DOMAIN conf
        delay == IF class = "none" THEN -1 ELSE conf[DelayKey(class, type)]
        repeat == conf[RepeatKey(class, type)]
        no == [fired |-> FALSE, alert |-> alert]
        yes == [fired |-> TRUE, alert |-> alert]
    IN  IF class = "none" THEN no
        ELSE IF hasDelay /\ delay < 0 THEN no
        ELSE IF hasDelay /\ (t - alert.startsAt) < delay * Minute THEN no
        ELSE IF ~hasRepeat THEN [no EXCEPT !.fired = (strategy = "webhook")]
        ELSE IF repeat = 0 /\ strategy = "loop" THEN yes
        ELSE IF repeat < 0 THEN [no EXCEPT !.fired = (LastSent(alert, type) = 0)]
        ELSE IF (t - LastSent(alert, type)) >= repeat * Minute
             THEN [fired |-> TRUE, alert |-> MarkSent(alert, type, t)]
        ELSE no

\* the host whose policy applies, as checkMentionMessages looks it up
HostOf(alert) ==
    LET h == getAlertValue(alert, "host", "")
    IN  IF h # "" THEN h ELSE
        LET i == getAlertValue(alert, "instance", "")
        IN  IF i # "" THEN i ELSE "Unknown Host"

HasPolicy(config, alert) == HostOf(alert) \in DOMAIN config

\* the mention types that fire for one alert (secondary is asked first, then
\* primary, on the object the secondary call left)
FiredTypes(config, alert, strategy, t) ==
    IF ~HasPolicy(config, alert) THEN {}
    ELSE LET conf == config[HostOf(alert)]
             sec == checkMention(conf, alert, "secondary", strategy, t)
             pri == checkMention(conf, sec.alert, "primary", strategy, t)
         IN  (IF sec.fired THEN {"secondary"} ELSE {})
             \cup (IF pri.fired THEN {"primary"} ELSE {})

\* usersToMention of one alert, duplicates removed
UsersToMention(config, alert, strategy, t) ==
    UNION {config[HostOf(alert)][ty] : ty \in FiredTypes(config, alert, strategy, t)}

\* sortAlertsByUsers: one group per distinct user list
sortAlertsByUsers(mentions) ==
    {[users |-> u, alerts |-> {m.id : m \in {x \in mentions : x.users = u}}] :
        u \in {m.users : m \in mentions}}

\* checkMentionMessages(alerts, strategy): the persistent-mention messages,
\* one per group
checkMentionMessages(config, alerts, strategy, t) ==
    LET mentions ==
            {[id |-> a.fingerprint,
              users |-> UsersToMention(config, a, strategy, t)] :
                a \in {x \in alerts : UsersToMention(config, x, strategy, t) # {}}}
    IN  sortAlertsByUsers(mentions)

(***************************************************************************)
(* The dedup loop of app.post('/webhook') (README.md:448-474).  The loop   *)
(* state st holds the two tables, alertsToNotify, and data.alerts as the   *)
(* loop has left the objects so far.                                       *)
(***************************************************************************)
NeverSent == [primary |-> FALSE, secondary |-> FALSE]

\* the new alert stored but not put on alertsToNotify
NewFiring_silent(st, alert) ==
    LET a == WithMentionsSent(alert, NeverSent)
    IN  [st EXCEPT !.active = setActiveAlert(st.active, alert.fingerprint, a),
                   !.seen = Append(@, a)]

\* the new alert put on alertsToNotify but not stored
NewFiring_unstored(st, alert) ==
    LET a == WithMentionsSent(alert, NeverSent)
    IN  [st EXCEPT !.notify = Append(@, a),
                   !.seen = Append(@, a)]

\* status firing, !hasActiveAlert(id)
NewFiring(st, alert) ==
    LET a == WithMentionsSent(alert, NeverSent)
    IN  [st EXCEPT !.notify = Append(@, a),
                   !.active = setActiveAlert(st.active, alert.fingerprint, a),
                   !.seen = Append(@, a)]

\* the duplicate put on alertsToNotify as well
DuplicateFiring_notifies(st, alert) ==
    LET existing == getActiveAlert(st.active, alert.fingerprint)
        ms == IF "mentionsSent" \in DOMAIN existing
              THEN existing.mentionsSent ELSE NeverSent
        a == WithMentionsSent(alert, ms)
    IN  [st EXCEPT !.notify = Append(@, a),
                   !.active = setActiveAlert(st.active, alert.fingerprint, a),
                   !.seen = Append(@, a)]

\* the mention record reset instead of carried forward
DuplicateFiring_reset(st, alert) ==
    LET a == WithMentionsSent(alert, NeverSent)
    IN  [st EXCEPT !.active = setActiveAlert(st.active, alert.fingerprint, a),
                   !.seen = Append(@, a)]

\* the stored alert left as it was first stored
DuplicateFiring_stale(st, alert) ==
    [st EXCEPT !.seen = Append(@, getActiveAlert(st.active, alert.fingerprint))]

\* status firing, hasActiveAlert(id)
DuplicateFiring(st, alert) ==
    LET existing == getActiveAlert(st.active, alert.fingerprint)
        ms == IF "mentionsSent" \in DOMAIN existing
              THEN existing.mentionsSent ELSE NeverSent
        a == WithMentionsSent(alert, ms)
    IN  [st EXCEPT !.active = setActiveAlert(st.active, alert.fingerprint, a),
                   !.seen = Append(@, a)]

\* the alert deleted, its message mappings kept
Resolved_keepsMap(st, alert) ==
    [st EXCEPT !.active = deleteActiveAlert(st.active, alert.fingerprint),
               !.notify = Append(@, alert),
               !.seen = Append(@, alert)]

\* status resolved, hasActiveAlert(id)
Resolved(st, alert) ==
    [st EXCEPT !.active = deleteActiveAlert(st.active, alert.fingerprint),
               !.map = deleteMessageMapByAlertId(st.map, alert.fingerprint),
               !.notify = Append(@, alert),
               !.seen = Append(@, alert)]

\* the message mappings of the fingerprint deleted all the same
ResolvedUnknown_deletes(st, alert) ==
    [st EXCEPT !.map = deleteMessageMapByAlertId(st.map, alert.fingerprint),
               !.notify = Append(@, alert),
               !.seen = Append(@, alert)]

\* status resolved, !hasActiveAlert(id)
ResolvedUnknown(st, alert) ==
    [st EXCEPT !.notify = Append(@, alert),
               !.seen = Append(@, alert)]

\* one pass of the loop body
DedupAlert(st, alert) ==
    IF alert.status = "firing"
    THEN IF ~hasActiveAlert(st.active, alert.fingerprint)
         THEN NewFiring(st, alert)
         ELSE DuplicateFiring(st, alert)
    ELSE IF hasActiveAlert(st.active, alert.fingerprint)
         THEN Resolved(st, alert)
         ELSE ResolvedUnknown(st, alert)

\* what one pass of the loop body did, as seen from outside: the
\* classification by the tables before, and the tables and list after
Observe(st, st2, alert) ==
    [fingerprint |-> alert.fingerprint,
     status |-> alert.status,
     annotations |-> alert.annotations,
     startsAt |-> alert.startsAt,
     had |-> hasActiveAlert(st.active, alert.fingerprint),
     before |-> AlertRows(st.active, alert.fingerprint),
     after |-> AlertRows(st2.active, alert.fingerprint),
     wasMapped |-> MapRows(st.map, alert.fingerprint) # {},
     mapped |-> MapRows(st2.map, alert.fingerprint) # {},
     listed |-> /\ Len(st2.notify) = Len(st.notify) + 1
                /\ Ref(st2.notify[Len(st2.notify)]) = Ref(alert),
     grown |-> Len(st2.notify) - Len(st.notify),
     framed |-> st2.active = st.active /\ st2.map = st.map]

RECURSIVE FilterAndDeduplicate(_, _)
FilterAndDeduplicate(st, alerts) ==
    IF alerts = <<>> THEN st
    ELSE LET st2 == DedupAlert(st, Head(alerts))
         IN  FilterAndDeduplicate(
                [st2 EXCEPT !.log = Append(@, Observe(st, st2, Head(alerts)))],
                Tail(alerts))

RECURSIVE DeleteAlerts(_, _)
DeleteAlerts(tables, ids) ==
    IF ids = {} THEN tables
    ELSE LET id == CHOOSE x \in ids : TRUE
         IN  DeleteAlerts(
                [active |-> deleteActiveAlert(tables.active, id),
                 map |-> deleteMessageMapByAlertId(tables.map, id)],
                ids \ {id})

\* README.md:500-510: delete what is stored but not in the request
PruneZombies(tables, receivedAlertIds) ==
    LET zombies == {a.fingerprint : a \in
                      {x \in getAllActiveAlerts(tables.active) :
                          x.fingerprint \notin receivedAlertIds}}
    IN  DeleteAlerts(tables, zombies)

(***************************************************************************)
(* Scheduled summaries (util.js:20-40, 149-183; db.js:97-104).  A schedule *)
(* string is the sequence of its comma-separated entries; an entry that    *)
(* parses is its hours and minutes, any other entry is [text |-> ...].     *)
(***************************************************************************)
Severities == {"CRIT", "WARN"}

Time(h, m) == [hours |-> h, minutes |-> m]

\* config.SUMMARY_SCHEDULE_<severity> || "6:00,14:30"
DefaultSchedule == <<Time(6, 0), Time(14, 30)>>

\* hours * 60 + minutes, -1 for an entry that does not parse
parseTimeToMinutes(entry) ==
    IF "hours" \in DOMAIN entry THEN entry.hours * 60 + entry.minutes ELSE -1

\* JavaScript %: the sign of the dividend
JsRem(a, b) == IF a >= 0 THEN a % b ELSE 0 - ((0 - a) % b)

\* midnight (UTC) of the day of t
DayStart(t) == t - (t % Day)

\* Date.UTC(today, Math.floor(minuteOfDay / 60), minuteOfDay % 60) at wall
\* clock t
getScheduleTimestamp(minuteOfDay, t) ==
    DayStart(t) + (minuteOfDay \div 60) * 60 * Minute
                + JsRem(minuteOfDay, 60) * Minute

\* SELECT last_sent FROM schedules WHERE severity = ?, -1 without a row
getLastSentSchedule(tbl, severity) ==
    IF \E r \in tbl : r.severity = severity
    THEN (CHOOSE r \in tbl : r.severity = severity).last_sent
    ELSE -1

\* the trigger not recorded
setLastSentSchedule_noop(tbl, severity, time) == tbl

\* INSERT OR REPLACE INTO schedules (severity PRIMARY KEY)
setLastSentSchedule(tbl, severity, time) ==
    {r \in tbl : r.severity # severity}
    \cup {[severity |-> severity, last_sent |-> time]}

\* today's timestamps of the entries that parse (the loop visits them in
\* ascending order)
ScheduledTimestamps(scheduleStr, t) ==
    {getScheduleTimestamp(parseTimeToMinutes(scheduleStr[i]), t) :
        i \in {j \in DOMAIN scheduleStr :
                  parseTimeToMinutes(scheduleStr[j]) >= 0}}

SetMin(S) == CHOOSE x \in S : \A y \in S : x <= y

\* the comparison of the loop taken as `<=`
Due_atOrBefore(scheduledTimestamp, t, lastSent) ==
    scheduledTimestamp <= t /\ lastSent < scheduledTimestamp

\* the loop without its comparison against lastSent
Due_anyPast(scheduledTimestamp, t, lastSent) == scheduledTimestamp < t

\* scheduledTimestamp < Date.now() && lastSent < scheduledTimestamp
Due(scheduledTimestamp, t, lastSent) ==
    scheduledTimestamp < t /\ lastSent < scheduledTimestamp

\* checkSchedule(severity, scheduleStr) at wall clock t: whether a summary
\* is triggered, for which scheduled timestamp, and the table afterwards
checkSchedule(tbl, severity, scheduleStr, t) ==
    LET stamps == ScheduledTimestamps(scheduleStr, t)
        stored == getLastSentSchedule(tbl, severity)
        old == stored < OldModeLimit
        lastSent == IF old THEN getScheduleTimestamp(stored, t) ELSE stored
        tbl1 == IF old THEN setLastSentSchedule(tbl, severity, lastSent)
                ELSE tbl
        due == {x \in stamps : Due(x, t, lastSent)}
    IN  IF scheduleStr = <<>> \/ stamps = {}
        THEN [fired |-> FALSE, stamp |-> 0, schedules |-> tbl]
        ELSE IF due # {}
        THEN [fired |-> TRUE, stamp |-> SetMin(due),
              schedules |-> setLastSentSchedule(tbl1, severity, SetMin(due))]
        ELSE [fired |-> FALSE, stamp |-> 0, schedules |-> tbl1]

\* the schedule part of checkSummariesAndMentions: checkSchedule for CRIT,
\* then for WARN, each with the severity and its schedule string (the two
\* parameters of util.js:149)
CheckSummaries(tbl, config, t) ==
    LET crit == checkSchedule(tbl, "CRIT", config.SUMMARY_SCHEDULE_CRIT, t)
        warn == checkSchedule(crit.schedules, "WARN",
                              config.SUMMARY_SCHEDULE_WARN, t)
    IN  [schedules |-> warn.schedules,
         fired |-> [CRIT |-> crit.fired, WARN |-> warn.fired],
         stamp |-> [CRIT |-> crit.stamp, WARN |-> warn.stamp]]

(***************************************************************************)
(* State.                                                                  *)
(*   active_alerts, message_map, schedules                                 *)
(*                               the tables of the SQLite file             *)
(*   mentionConfig               content of the mention config file        *)
(*   now                         wall clock, milliseconds                  *)
(*   webhook                     per request: where the handler is         *)
(*                               suspended and the locals it still reads   *)
(*   reaction                    the mute-reaction handler                 *)
(*   tick                        the periodic check                        *)
(*   overrun                     the run of the periodic check that starts *)
(*                               while the previous run is suspended       *)
(*   nextEventId                 next event id of the homeserver           *)
(*   env                         the environment of the run, fixed by the  *)
(*                               specification: the requests that may be   *)
(*                               in flight at once (clients), the time of  *)
(*                               the last timer run (lastTick), and the    *)
(*                               histories that are kept (keeps)           *)
(* History variables, written but never read by the program; a history     *)
(* that env.keeps does not name stays at its initial value.                *)
(*   evlog      what each pass of the dedup loop that has just run did     *)
(*   since      per fingerprint, what happened since its last individual   *)
(*              firing notification                                        *)
(*   renotified the firing notifications decided by the dedup loop that    *)
(*              has just run, each with `since` of its fingerprint before  *)
(*   watch      per request: ran alone so far, what it notified            *)
(*   completed  the request that has just been answered                    *)
(*   twice      set when a batch of firing events is handled directly      *)
(*              after a batch of firing events with the same fingerprints, *)
(*              both with no other handler in flight                       *)
(*   onceCount  mentions fired under a negative repeat while stored        *)
(*   mentionLog what the timer runs fired under a positive repeat          *)
(*   summaryLog the scheduled times that triggered a summary, and what the *)
(*              timer run that has just ended found and did                *)
(*   silence    the outcome of the Grafana call of the silence in flight   *)
(*   sent       the Matrix send that has just returned, and the rows it    *)
(*              added to the message map                                   *)
(*   probe      one evaluation of checkMention: its arguments and result   *)
(*   hist       what the step that has just been taken was: a start of the *)
(*              process with the alerts stored then, the first request     *)
(*              after it                                                   *)
(***************************************************************************)
VARIABLES active_alerts, message_map, schedules, mentionConfig, now,
          webhook, reaction, tick, nextEventId,
          env, evlog, since, renotified, watch, completed, twice, onceCount,
          mentionLog, summaryLog, silence, sent, probe, hist, overrun

vars == <<active_alerts, message_map, schedules, mentionConfig, now,
          webhook, reaction, tick, nextEventId,
          env, evlog, since, renotified, watch, completed, twice, onceCount,
          mentionLog, summaryLog, silence, sent, probe, hist, overrun>>

IdleWebhook == [pc |-> "idle", recv |-> {}, toNotify |-> <<>>, pending |-> 0]
IdleReaction == [pc |-> "idle", alertId |-> ""]
IdleTick == [pc |-> "idle", pending |-> 0]

NoCount == [fp \in Fingerprints |-> 0]
NoOnce == [fp \in Fingerprints |-> [ty \in Types |-> 0]]
NoSince == [fp \in Fingerprints |-> "none"]
Unwatched == [solo |-> FALSE, firing |-> FALSE, fired |-> NoCount, pre |-> {}]
NotCompleted == [done |-> FALSE, recv |-> {}, solo |-> FALSE, firing |-> FALSE,
                 fired |-> NoCount, pre |-> {}]
NotTwice == [on |-> FALSE, recv |-> {}, first |-> NoCount,
             second |-> NoCount, pre |-> {}, payload |-> <<>>]

NoMentionLog ==
    [last |-> [fp \in Fingerprints |-> [ty \in Types |-> 0]],
     early |-> {}, stale |-> {}]
NoTrigger == [stamp |-> 0, at |-> 0]
NoSummaryLog ==
    [trig |-> {}, again |-> {},
     lastTrig |-> [sev \in Severities |-> NoTrigger],
     catchup |-> [sev \in Severities |-> FALSE],
     last |-> [on |-> FALSE, at |-> 0,
               before |-> [sev \in Severities |-> 0],
               fired |-> [sev \in Severities |-> FALSE],
               stamp |-> [sev \in Severities |-> 0]]]
NoSilence == [result |-> "none", done |-> FALSE, before |-> <<>>, after |-> <<>>,
              id |-> "", read |-> {}]
NoSent == [on |-> FALSE, kind |-> "none", id |-> 0, fingerprint |-> "",
           added |-> {}]
NoProbe == [on |-> FALSE]
NoRestart == [phase |-> "none", stored |-> {}]
NoError == [on |-> FALSE, handler |-> "", alerts |-> <<>>, at |-> 0,
            before |-> <<>>]
NoAnswer == [on |-> FALSE, code |-> 0, planned |-> 0, attempts |-> 0,
             failed |-> 0]
NoLegacy == [phase |-> "none", before |-> <<>>]
NoOld == [on |-> FALSE, at |-> 0, trig |-> {}, again |-> {}]
NoHist == [restart |-> NoRestart, skipped |-> {}, error |-> NoError,
           answer |-> NoAnswer, legacy |-> NoLegacy, old |-> NoOld]

StoredIds(tbl) == {r.id : r \in tbl}

\* the tables created anew at every start
initDB_fresh(tbl) == {}

\* initDB: CREATE TABLE IF NOT EXISTS keeps the rows of the database file
initDB(tbl) == tbl

\* A database file left by the earlier release, whose tick wrote last_sent_<type>
\* into the stored alert (src/src/index.js:398-417).
LegacyAlert ==
    WithMentionsSent(Alert("a", "firing", "s1"),
        [primary |-> FALSE, secondary |-> FALSE,
         last_sent_primary |-> Epoch - Minute])

\* initDB: CREATE TABLE IF NOT EXISTS keeps the rows of an earlier run
InitState ==
    /\ active_alerts \in {{}, {[id |-> "a", data |-> LegacyAlert]}}
    /\ message_map = {}
    /\ schedules = {}
    /\ now = Epoch
    /\ webhook = [h \in Handlers |-> IdleWebhook]
    /\ reaction = IdleReaction
    /\ tick = IdleTick
    /\ overrun = IdleTick
    /\ nextEventId = 1

InitProgram == InitState /\ mentionConfig \in MentionConfigs

InitHistory ==
    /\ evlog = <<>>
    /\ since = NoSince
    /\ renotified = {}
    /\ watch = [h \in Handlers |-> Unwatched]
    /\ completed = NotCompleted
    /\ twice = NotTwice
    /\ onceCount = NoOnce
    /\ mentionLog = NoMentionLog
    /\ summaryLog = NoSummaryLog
    /\ silence = NoSilence
    /\ sent = NoSent
    /\ probe = NoProbe
    /\ hist = NoHist

\* SUMMARY_SCHEDULE_CRIT and SUMMARY_SCHEDULE_WARN not set
SummaryConfig ==
    [SUMMARY_SCHEDULE_CRIT |-> DefaultSchedule,
     SUMMARY_SCHEDULE_WARN |-> DefaultSchedule]

Env(keeps, clients, ticks) ==
    [keeps |-> keeps, clients |-> clients, lastTick |-> Epoch + ticks * Minute,
     config |-> SummaryConfig, batch |-> MaxBatch]

\* every request interleaved with every other, one timer run
Init == InitProgram /\ InitHistory /\ env = Env({}, Handlers, 1)

(***************************************************************************)
(* Bookkeeping of the history variables.                                   *)
(***************************************************************************)
Range(seq) == {seq[i] : i \in DOMAIN seq}

Min(x, y) == IF x <= y THEN x ELSE y

Keeps(h) == h \in env.keeps

\* an individual firing notification was decided in this pass
NotifiedFiring(e) == e.status = "firing" /\ e.grown > 0

SinceStep(v, e) ==
    IF NotifiedFiring(e) THEN "fresh"
    ELSE IF e.status = "resolved" /\ v # "none" THEN "ended"
    ELSE v

RECURSIVE SinceFold(_, _)
SinceFold(s, log) ==
    IF log = <<>> THEN [since |-> s, renotified |-> {}]
    ELSE LET e == Head(log)
             rest == SinceFold([s EXCEPT ![e.fingerprint] = SinceStep(@, e)],
                               Tail(log))
         IN  [since |-> rest.since,
              renotified |-> rest.renotified \cup
                  (IF NotifiedFiring(e)
                   THEN {[fingerprint |-> e.fingerprint,
                          since |-> s[e.fingerprint]]}
                   ELSE {})]

SincePruned(s, ids) ==
    [fp \in Fingerprints |->
        IF fp \in ids /\ s[fp] = "fresh" THEN "pruned" ELSE s[fp]]

SinceSilenced(s, id) ==
    [fp \in Fingerprints |->
        IF fp = id /\ s[fp] # "none" THEN "ended" ELSE s[fp]]

FiredIn(log) ==
    [fp \in Fingerprints |->
        Cardinality({i \in DOMAIN log :
            log[i].fingerprint = fp /\ NotifiedFiring(log[i])})]

\* the applicable repeat value of the type is negative ("once")
OnceApplies(config, alert, type) ==
    /\ HasPolicy(config, alert)
    /\ SeverityClass(alert) # "none"
    /\ RepeatKey(SeverityClass(alert), type) \in DOMAIN config[HostOf(alert)]
    /\ config[HostOf(alert)][RepeatKey(SeverityClass(alert), type)] < 0

OnceFired(config, alerts, strategy, t) ==
    UNION {{<<a.fingerprint, ty>> :
              ty \in {x \in FiredTypes(config, a, strategy, t) :
                         OnceApplies(config, a, x)}} : a \in alerts}

Bump(c, fired) ==
    [fp \in Fingerprints |-> [ty \in Types |->
        IF <<fp, ty>> \in fired THEN Min(c[fp][ty] + 1, 2) ELSE c[fp][ty]]]

\* the count restarts when the stored alert goes
ResetGone(c, gone) ==
    [fp \in Fingerprints |-> [ty \in Types |->
        IF fp \in gone THEN 0 ELSE c[fp][ty]]]

\* the applicable repeat value of the type is positive (an interval)
IntervalApplies(config, alert, type) ==
    /\ HasPolicy(config, alert)
    /\ SeverityClass(alert) # "none"
    /\ RepeatKey(SeverityClass(alert), type) \in DOMAIN config[HostOf(alert)]
    /\ config[HostOf(alert)][RepeatKey(SeverityClass(alert), type)] > 0

IntervalFired(config, alerts, strategy, t) ==
    UNION {{<<a.fingerprint, ty>> :
              ty \in {x \in FiredTypes(config, a, strategy, t) :
                         IntervalApplies(config, a, x)}} : a \in alerts}

\* the record of a timer run at wall clock t: the mentions it fired under an
\* interval, those fired sooner than the interval after the last one, and
\* those whose stored last_sent_<type> is not t after the run
MentionStep(log, config, tbl, tblAfter, t) ==
    LET alerts == getAllActiveAlerts(tbl)
        fired == IntervalFired(config, alerts, "loop", t)
        interval(fp, ty) ==
            LET a == CHOOSE x \in alerts : x.fingerprint = fp
            IN  config[HostOf(a)][RepeatKey(SeverityClass(a), ty)] * Minute
    IN  [last |-> [fp \in Fingerprints |-> [ty \in Types |->
                    IF <<fp, ty>> \in fired THEN t ELSE log.last[fp][ty]]],
         early |-> {f \in fired :
                      /\ log.last[f[1]][f[2]] # 0
                      /\ t - log.last[f[1]][f[2]] < interval(f[1], f[2])},
         stale |-> {f \in fired :
                      \E d \in AlertRows(tblAfter, f[1]) :
                          LastSent(d, f[2]) # t}]

\* a fingerprint that is stored anew starts without a last mention
MentionReset(log, fps) ==
    [log EXCEPT !.last = [fp \in Fingerprints |-> [ty \in Types |->
                            IF fp \in fps THEN 0 ELSE log.last[fp][ty]]]]

\* the record of the schedule part of a timer run at wall clock t
SummaryStep(log, tbl, res, t) ==
    LET new == {[severity |-> sev, stamp |-> res.stamp[sev]] :
                    sev \in {x \in Severities : res.fired[x]}}
    IN  [trig |-> log.trig \cup new,
         again |-> log.again \cup (log.trig \cap new),
         lastTrig |-> [sev \in Severities |->
                        IF res.fired[sev]
                        THEN [stamp |-> res.stamp[sev], at |-> t]
                        ELSE log.lastTrig[sev]],
         catchup |-> [sev \in Severities |->
                        \/ log.catchup[sev]
                        \/ /\ res.fired[sev]
                           /\ log.lastTrig[sev].stamp # 0
                           /\ log.lastTrig[sev].stamp < res.stamp[sev]
                           /\ res.stamp[sev] < log.lastTrig[sev].at],
         last |-> [on |-> TRUE, at |-> t,
                   before |-> [sev \in Severities |->
                                 getLastSentSchedule(tbl, sev)],
                   fired |-> res.fired,
                   stamp |-> res.stamp]]

\* sendGrafanaSilence(alert, Date.now()): without the Grafana settings it
\* resolves to false; with them `start` is a number, start.toISOString() (or
\* start.getTime()) throws before the request and the promise is rejected
sendGrafanaSilence(configured) ==
    IF ~configured THEN "false" ELSE "rejected"

\* every send that returns an event id recorded
RecordMessage_always(map, a, sentEventId) ==
    IF sentEventId # 0
    THEN setMessageMap(map, sentEventId, a.fingerprint)
    ELSE map

\* if (sentEventId && a.status === 'firing') setMessageMap(sentEventId, id);
\* sentEventId 0 stands for null
RecordMessage(map, a, sentEventId) ==
    IF sentEventId # 0 /\ a.status = "firing"
    THEN setMessageMap(map, sentEventId, a.fingerprint)
    ELSE map

\* res.status(200) when the handler runs to its end, res.status(500) in the
\* catch block; `failed` is the number of sends that returned null
StatusCode_failedSend(raised, failed) ==
    IF raised \/ failed > 0 THEN 500 ELSE 200

StatusCode(raised, failed) ==
    IF raised THEN 500 ELSE 200

\* the request has n sends to make; without any it is answered at once
Planned(n) ==
    [on |-> n = 0, code |-> IF n = 0 THEN StatusCode(FALSE, 0) ELSE 0,
     planned |-> n, attempts |-> 0, failed |-> 0]

\* one send of the request has returned; after the last one the request is
\* answered
Attempt(ans, ok, last) ==
    LET failed == ans.failed + (IF ok THEN 0 ELSE 1)
    IN  [on |-> last, code |-> IF last THEN StatusCode(FALSE, failed) ELSE 0,
         planned |-> ans.planned, attempts |-> ans.attempts + 1,
         failed |-> failed]

\* the duplicate-firing alerts of a batch whose policy fires in webhook
\* context, in a request that sends no persistent-mention message
SkippedMentions(config, tbl, map, alerts, t) ==
    LET st == FilterAndDeduplicate(
                    [active |-> tbl, map |-> map,
                     notify |-> <<>>, seen |-> <<>>, log |-> <<>>], alerts)
    IN  IF st.notify = <<>> THEN {}
        ELSE {st.log[i].fingerprint : i \in
                {j \in DOMAIN st.log :
                    /\ st.log[j].status = "firing" /\ st.log[j].had
                    /\ UsersToMention(config, st.seen[j], "webhook", t) # {}}}

\* the number of sends the handler makes for a batch: one per alert to
\* notify, otherwise one per persistent-mention message
SendsOf(config, tbl, map, alerts, t) ==
    LET st == FilterAndDeduplicate(
                    [active |-> tbl, map |-> map,
                     notify |-> <<>>, seen |-> <<>>, log |-> <<>>], alerts)
    IN  IF st.notify # <<>> THEN Len(st.notify)
        ELSE Cardinality(checkMentionMessages(config, Range(st.seen),
                                              "webhook", t))

\* the last alert of the batch that carries the fingerprint
LastOf(alerts, fp) ==
    LET last == CHOOSE i \in DOMAIN alerts :
                   /\ alerts[i].fingerprint = fp
                   /\ \A j \in DOMAIN alerts :
                        alerts[j].fingerprint = fp => j <= i
    IN  alerts[last]

\* the record of a request that is answered in this step
Answered(recv, w) ==
    IF Keeps("twice")
    THEN [done |-> TRUE, recv |-> recv, solo |-> w.solo, firing |-> w.firing,
          fired |-> w.fired, pre |-> w.pre]
    ELSE IF Keeps("done")
    THEN [NotCompleted EXCEPT !.done = TRUE, !.recv = recv]
    ELSE NotCompleted

\* no history of the step: the step was not a dedup loop, and no request
\* was answered in it
Quiet ==
    /\ evlog' = <<>>
    /\ renotified' = {}
    /\ twice' = NotTwice
    /\ completed' = NotCompleted

NotAlone ==
    watch' = [g \in Handlers |-> [watch[g] EXCEPT !.solo = FALSE]]

(***************************************************************************)
(* app.post('/webhook'), Unified Alerting branch (README.md:435-511).      *)
(***************************************************************************)

\* The request arrives: the dedup loop runs, then either nothing is left to
\* do (answer 200 'Processed'), or the handler suspends in its first send.
\* The handlers are the requests in flight: w2 is one that arrives while w1
\* is suspended.  env.batch is the largest batch of the specification.
WebhookReceive(h, alerts) ==
    /\ webhook[h].pc = "idle"
    /\ h \in env.clients
    /\ Len(alerts) <= env.batch
    /\ (\E g \in Handlers : webhook[g].pc # "idle") => Len(alerts) <= MaxOverlap
    /\ h = "w2" => webhook["w1"].pc # "idle"
    /\ LET st == FilterAndDeduplicate(
                    [active |-> active_alerts, map |-> message_map,
                     notify |-> <<>>, seen |-> <<>>, log |-> <<>>], alerts)
           messages == checkMentionMessages(mentionConfig, Range(st.seen),
                                            "webhook", now)
           answered == st.notify = <<>> /\ messages = {}
           recv == FingerprintsOf(alerts)
           sf == SinceFold(since, st.log)
           alone == /\ \A g \in Handlers \ {h} : webhook[g].pc = "idle"
                    /\ reaction.pc = "idle"
           firing == /\ alerts # <<>>
                     /\ \A i \in DOMAIN alerts : alerts[i].status = "firing"
           w == [solo |-> alone, firing |-> firing, fired |-> FiredIn(st.log),
                 pre |-> StoredIds(active_alerts) \cap recv]
           again == /\ completed.done /\ completed.solo /\ completed.firing
                    /\ alone /\ firing
                    /\ recv = completed.recv
           ended == {st.log[i].fingerprint : i \in
                        {j \in DOMAIN st.log : st.log[j].status = "resolved"}}
       IN  /\ active_alerts' = st.active
           /\ message_map' = st.map
           /\ webhook' = [webhook EXCEPT ![h] =
                IF st.notify # <<>>
                THEN [pc |-> "notify", recv |-> recv,
                      toNotify |-> Refs(st.notify), pending |-> 0]
                ELSE IF messages # {}
                THEN [pc |-> "mention", recv |-> recv,
                      toNotify |-> <<>>, pending |-> Cardinality(messages)]
                ELSE IdleWebhook]
           /\ evlog' = IF Keeps("dedup") THEN st.log ELSE <<>>
           /\ since' = IF Keeps("since") THEN sf.since ELSE since
           /\ renotified' = IF Keeps("since") THEN sf.renotified ELSE {}
           /\ watch' =
                IF Keeps("twice")
                THEN [g \in Handlers |->
                        IF g = h THEN (IF answered THEN Unwatched ELSE w)
                        ELSE [watch[g] EXCEPT !.solo = FALSE]]
                ELSE watch
           /\ completed' = IF answered THEN Answered(recv, w) ELSE NotCompleted
           /\ twice' =
                IF Keeps("twice") /\ again
                THEN [on |-> TRUE, recv |-> recv, first |-> completed.fired,
                      second |-> w.fired, pre |-> completed.pre,
                      payload |-> [fp \in recv |-> LastOf(alerts, fp)]]
                ELSE NotTwice
           /\ onceCount' =
                IF Keeps("once")
                THEN Bump(ResetGone(onceCount, ended),
                          IF st.notify = <<>>
                          THEN OnceFired(mentionConfig, Range(st.seen),
                                         "webhook", now)
                          ELSE {})
                ELSE onceCount
           /\ mentionLog' =
                IF Keeps("repeat")
                THEN MentionReset(mentionLog,
                        {st.log[i].fingerprint : i \in
                            {j \in DOMAIN st.log : NotifiedFiring(st.log[j])}})
                ELSE mentionLog
    /\ UNCHANGED <<schedules, mentionConfig, now, reaction, tick, nextEventId,
                   env, summaryLog, silence, sent, probe>>
    /\ overrun' = overrun
    /\ hist' = [NoHist EXCEPT
                    !.restart =
                        IF Keeps("restart") /\ hist.restart.phase = "restarted"
                        THEN [hist.restart EXCEPT !.phase = "redelivered"]
                        ELSE NoRestart,
                    !.skipped =
                        IF Keeps("skipped")
                        THEN SkippedMentions(mentionConfig, active_alerts,
                                             message_map, alerts, now)
                        ELSE {},
                    !.answer =
                        IF Keeps("answer")
                        THEN Planned(SendsOf(mentionConfig, active_alerts,
                                             message_map, alerts, now))
                        ELSE NoAnswer]

\* One `await matrix.sendMatrixNotification` of the send loop returns (the
\* event id, or null when the send failed).  After the last one the zombie
\* loop runs and the request is answered.
SendNotification(h, ok) ==
    /\ webhook[h].pc = "notify"
    /\ ok => nextEventId <= MaxEventIds
    /\ LET a == Head(webhook[h].toNotify)
           rest == Tail(webhook[h].toNotify)
           recorded == ok /\ a.status = "firing"
           sentEventId == IF ok THEN nextEventId ELSE 0
           map1 == RecordMessage(message_map, a, sentEventId)
           last == rest = <<>>
           pruned == PruneZombies([active |-> active_alerts, map |-> map1],
                                  webhook[h].recv)
           gone == StoredIds(active_alerts) \ StoredIds(pruned.active)
       IN  /\ active_alerts' = IF last THEN pruned.active ELSE active_alerts
           /\ message_map' = IF last THEN pruned.map ELSE map1
           /\ nextEventId' = IF recorded THEN nextEventId + 1 ELSE nextEventId
           /\ webhook' = [webhook EXCEPT ![h] =
                IF last THEN IdleWebhook ELSE [@ EXCEPT !.toNotify = rest]]
           /\ completed' = IF last THEN Answered(webhook[h].recv, watch[h])
                           ELSE NotCompleted
           /\ since' = IF last /\ Keeps("since")
                       THEN SincePruned(since, gone) ELSE since
           /\ watch' = [watch EXCEPT ![h] = IF last THEN Unwatched ELSE @]
           /\ onceCount' = IF last /\ Keeps("once")
                           THEN ResetGone(onceCount, gone) ELSE onceCount
           /\ sent' = IF Keeps("sent")
                      THEN [on |-> TRUE, kind |-> a.status, id |-> sentEventId,
                            fingerprint |-> a.fingerprint,
                            added |-> map1 \ message_map]
                      ELSE sent
           /\ overrun' = overrun
           /\ hist' = [NoHist EXCEPT !.answer =
                           IF Keeps("answer")
                           THEN Attempt(hist.answer, ok, last) ELSE NoAnswer]
    /\ evlog' = <<>>
    /\ renotified' = {}
    /\ twice' = NotTwice
    /\ UNCHANGED <<schedules, mentionConfig, now, reaction, tick, env,
                   mentionLog, summaryLog, silence, probe>>

\* One send of a persistent-mention message returns (README.md:479-485);
\* after the last one the request is answered, without the zombie loop.
SendMention(h, ok) ==
    /\ webhook[h].pc = "mention"
    /\ LET last == webhook[h].pending = 1
       IN  /\ webhook' = [webhook EXCEPT ![h] =
                IF last THEN IdleWebhook ELSE [@ EXCEPT !.pending = @ - 1]]
           /\ completed' = IF last THEN Answered(webhook[h].recv, watch[h])
                           ELSE NotCompleted
           /\ watch' = [watch EXCEPT ![h] = IF last THEN Unwatched ELSE @]
           /\ overrun' = overrun
           /\ hist' = [NoHist EXCEPT !.answer =
                           IF Keeps("answer")
                           THEN Attempt(hist.answer, ok, last) ELSE NoAnswer]
    /\ message_map' = message_map
    /\ sent' = IF Keeps("sent")
               THEN [on |-> TRUE, kind |-> "mention",
                     id |-> IF ok THEN nextEventId ELSE 0,
                     fingerprint |-> "", added |-> message_map' \ message_map]
               ELSE sent
    /\ evlog' = <<>>
    /\ renotified' = {}
    /\ twice' = NotTwice
    /\ UNCHANGED <<active_alerts, schedules, mentionConfig, now,
                   reaction, tick, nextEventId, env, since, onceCount,
                   mentionLog, summaryLog, silence, probe>>

(***************************************************************************)
(* matrix.on("reaction") and createGrafanaSilence (README.md:358-396).     *)
(* sendGrafanaSilence is called without await, so silenceResult is a       *)
(* promise and the handler takes the success branch.                       *)
(***************************************************************************)

\* A mute reaction on a tracked message whose alert is stored: the handler
\* suspends in the send of the confirmation.
ReactionMute(eventId, configured) ==
    /\ reaction.pc = "idle"
    /\ hasMessageMap(message_map, eventId)
    /\ hasActiveAlert(active_alerts, getAlertIdFromEvent(message_map, eventId))
    /\ reaction' = [pc |-> "confirm",
                    alertId |-> getAlertIdFromEvent(message_map, eventId)]
    /\ silence' = IF Keeps("silence")
                  THEN [NoSilence EXCEPT
                            !.result = sendGrafanaSilence(configured),
                            !.id = getAlertIdFromEvent(message_map, eventId),
                            !.read = AlertRows(active_alerts,
                                getAlertIdFromEvent(message_map, eventId))]
                  ELSE silence
    /\ IF Keeps("twice") THEN NotAlone ELSE UNCHANGED watch
    /\ Quiet
    /\ UNCHANGED <<active_alerts, message_map, schedules, mentionConfig, now,
                   webhook, tick, nextEventId, env, since, onceCount,
                   mentionLog, summaryLog, sent, probe>>
    /\ overrun' = overrun
    /\ hist' = NoHist

\* The confirmation was sent: the alert and its mappings are deleted.
SilenceConfirmed ==
    /\ reaction.pc = "confirm"
    /\ active_alerts' = deleteActiveAlert(active_alerts, reaction.alertId)
    /\ message_map' = deleteMessageMapByAlertId(message_map, reaction.alertId)
    /\ reaction' = IdleReaction
    /\ since' = IF Keeps("since")
                THEN SinceSilenced(since, reaction.alertId) ELSE since
    /\ onceCount' = IF Keeps("once")
                    THEN ResetGone(onceCount, {reaction.alertId}) ELSE onceCount
    /\ silence' = IF Keeps("silence")
                  THEN [silence EXCEPT
                            !.done = TRUE,
                            !.before = <<active_alerts, message_map>>,
                            !.after = <<active_alerts', message_map'>>]
                  ELSE silence
    /\ IF Keeps("twice") THEN NotAlone ELSE UNCHANGED watch
    /\ Quiet
    /\ UNCHANGED <<schedules, mentionConfig, now, webhook, tick, nextEventId,
                   env, mentionLog, summaryLog, sent, probe>>
    /\ overrun' = overrun
    /\ hist' = NoHist

(***************************************************************************)
(* checkSummariesAndMentions, the one-minute timer (README.md:539-562):    *)
(* the mention pass.                                                       *)
(***************************************************************************)
\* the schedule part of the run, at wall clock t
SummariesAt(t) ==
    LET res == CheckSummaries(schedules, env.config, t)
    IN  /\ schedules' = res.schedules
        /\ summaryLog' = IF Keeps("summary")
                         THEN SummaryStep(summaryLog, schedules, res, t)
                         ELSE summaryLog

\* the timer fires at wall clock t: the mention pass; without a message to
\* send, the schedule part follows at once
TickAt(t) ==
    /\ tick.pc = "idle"
    /\ now' = t
    /\ UNCHANGED <<active_alerts, message_map, mentionConfig, webhook, reaction,
                   nextEventId, env, since, watch, silence, sent, probe>>
    /\ overrun' = overrun
    /\ hist' = NoHist
    /\ LET alerts == getAllActiveAlerts(active_alerts)
           messages == checkMentionMessages(mentionConfig, alerts, "loop", t)
       IN  /\ tick' = IF messages = {} THEN IdleTick
                      ELSE [pc |-> "sending", pending |-> Cardinality(messages)]
           /\ IF messages = {} THEN SummariesAt(t)
              ELSE UNCHANGED <<schedules, summaryLog>>
           /\ onceCount' =
                IF Keeps("once")
                THEN Bump(onceCount,
                          OnceFired(mentionConfig, alerts, "loop", t))
                ELSE onceCount
           /\ mentionLog' =
                IF Keeps("repeat")
                THEN MentionStep(mentionLog, mentionConfig, active_alerts,
                                 active_alerts', t)
                ELSE mentionLog
    /\ Quiet

\* setInterval(checkSummariesAndMentions, 60 * 1000)
Tick ==
    /\ now < env.lastTick
    /\ TickAt(now + Minute)

\* one send of the tick's persistent-mention messages returns; after the
\* last one the schedule part runs
TickSend(ok) ==
    /\ tick.pc = "sending"
    /\ tick' = IF tick.pending = 1 THEN IdleTick
               ELSE [tick EXCEPT !.pending = @ - 1]
    /\ IF tick.pending = 1 THEN SummariesAt(now)
       ELSE UNCHANGED <<schedules, summaryLog>>
    /\ message_map' = message_map
    /\ sent' = IF Keeps("sent")
               THEN [on |-> TRUE, kind |-> "mention",
                     id |-> IF ok THEN nextEventId ELSE 0,
                     fingerprint |-> "", added |-> message_map' \ message_map]
               ELSE sent
    /\ Quiet
    /\ UNCHANGED <<active_alerts, mentionConfig, now, webhook,
                   reaction, nextEventId, env, since, watch, onceCount,
                   mentionLog, silence, probe>>
    /\ overrun' = overrun
    /\ hist' = NoHist

(***************************************************************************)
(* The process stops and is started again: every suspended handler is      *)
(* gone, the database file stays.                                          *)
(***************************************************************************)
Restart ==
    /\ ~(/\ \A h \in Handlers : webhook[h].pc = "idle"
         /\ reaction.pc = "idle"
         /\ tick.pc = "idle"
         /\ ~(Keeps("restart") /\ hist.restart.phase # "restarted"))
    /\ webhook' = [h \in Handlers |-> IdleWebhook]
    /\ reaction' = IdleReaction
    /\ tick' = IdleTick
    /\ watch' = [h \in Handlers |-> Unwatched]
    /\ active_alerts' = initDB(active_alerts)
    /\ message_map' = initDB(message_map)
    /\ schedules' = initDB(schedules)
    /\ silence' = NoSilence
    /\ Quiet
    /\ UNCHANGED <<mentionConfig, now, nextEventId, env, since, onceCount,
                   mentionLog, summaryLog, sent, probe>>
    /\ overrun' = IdleTick
    /\ hist' = [NoHist EXCEPT !.restart =
                    IF Keeps("restart")
                    THEN [phase |-> "restarted",
                          stored |-> StoredIds(active_alerts)]
                    ELSE NoRestart]

Next ==
    \/ \E h \in Handlers, alerts \in Batches : WebhookReceive(h, alerts)
    \/ \E h \in Handlers, ok \in BOOLEAN : SendNotification(h, ok)
    \/ \E h \in Handlers, ok \in BOOLEAN : SendMention(h, ok)
    \/ \E eventId \in 1..MaxEventIds, configured \in BOOLEAN :
          ReactionMute(eventId, configured)
    \/ SilenceConfirmed
    \/ Tick
    \/ \E ok \in BOOLEAN : TickSend(ok)
    \/ Restart

Spec == Init /\ [][Next]_vars

\* a schedule whose times fall around the start of the process
NearSchedule ==
    [SUMMARY_SCHEDULE_CRIT |-> <<Time(0, 10)>>,
     SUMMARY_SCHEDULE_WARN |-> <<Time(0, 10), Time(0, 11)>>]

\* the process is stopped and started between requests and timer runs
InitRestart ==
    /\ InitProgram /\ InitHistory
    /\ env = [Env({"dedup", "summary", "restart"}, {"w1"}, MaxTicks)
                EXCEPT !.config = NearSchedule, !.batch = MaxBrief]
SpecRestart == InitRestart /\ [][Next]_vars

\* the outcome of the Grafana call of each silence is kept
InitSilence ==
    /\ InitProgram /\ InitHistory
    /\ env = [Env({"silence"}, {"w1"}, 1) EXCEPT !.batch = MaxBrief]
SpecSilence == InitSilence /\ [][Next]_vars

\* what each Matrix send added to the message map is kept
InitSent == InitProgram /\ InitHistory /\ env = Env({"sent"}, {"w1"}, 1)
SpecSent == InitSent /\ [][Next]_vars

(***************************************************************************)
(* The timer followed through the day.  The runs between two of the        *)
(* instants below either find nothing of the schedule due or do not happen *)
(* because the process is not running; a run that starts j milliseconds    *)
(* after the full minute reads the clock then.                             *)
(***************************************************************************)
\* SUMMARY_SCHEDULE_CRIT=08:00,16:00 and SUMMARY_SCHEDULE_WARN=08:00
ScheduleConfig ==
    [SUMMARY_SCHEDULE_CRIT |-> <<Time(8, 0), Time(16, 0)>>,
     SUMMARY_SCHEDULE_WARN |-> <<Time(8, 0)>>]

TickMinutes == {8 * 60, 8 * 60 + 5, 17 * 60, 17 * 60 + 1}
TickJitter == {0, 1}

LateTick(m, j) ==
    LET today == DayStart(now) + m * Minute + j
        t == IF today > now THEN today ELSE today + Day
    IN  /\ t < DayStart(Epoch) + MaxDays * Day
        /\ TickAt(t)

NextSchedule == \E m \in TickMinutes, j \in TickJitter : LateTick(m, j)

InitSchedule ==
    /\ InitProgram /\ InitHistory
    /\ env = [Env({"summary"}, {}, 0) EXCEPT !.config = ScheduleConfig]
SpecSchedule == InitSchedule /\ [][NextSchedule]_vars

\* SUMMARY_SCHEDULE_CRIT=8am (no entry parses), SUMMARY_SCHEDULE_WARN=8:00,4pm
MalformedConfig ==
    [SUMMARY_SCHEDULE_CRIT |-> <<[text |-> "8am"]>>,
     SUMMARY_SCHEDULE_WARN |-> <<Time(8, 0), [text |-> "4pm"]>>]

InitMalformed ==
    /\ InitProgram /\ InitHistory
    /\ env = [Env({"summary"}, {}, 0) EXCEPT !.config = MalformedConfig]
SpecMalformed == InitMalformed /\ [][NextSchedule]_vars

(***************************************************************************)
(* A store call that throws inside the dedup loop (README.md:436, 532-536: *)
(* the whole handler is one try block, the catch answers 500).             *)
(***************************************************************************)
\* the batch without its k-th alert
Without(alerts, k) ==
    SubSeq(alerts, 1, k - 1) \o SubSeq(alerts, k + 1, Len(alerts))

\* The first store call made for the k-th alert of the batch throws: the
\* loop has handled the alerts before it, the catch block answers 500, no
\* notification of the batch is sent.
StorageError(h, alerts, k) ==
    /\ webhook[h].pc = "idle"
    /\ h \in env.clients
    /\ k \in DOMAIN alerts
    /\ LET st == FilterAndDeduplicate(
                    [active |-> active_alerts, map |-> message_map,
                     notify |-> <<>>, seen |-> <<>>, log |-> <<>>],
                    SubSeq(alerts, 1, k - 1))
       IN  /\ active_alerts' = st.active
           /\ message_map' = st.map
    /\ Quiet
    /\ UNCHANGED <<schedules, mentionConfig, now, webhook, reaction, tick,
                   nextEventId, env, since, watch, onceCount, mentionLog,
                   summaryLog, silence, sent, probe>>
    /\ overrun' = overrun
    /\ hist' = [NoHist EXCEPT
                    !.error =
                        [on |-> TRUE, handler |-> h, alerts |-> alerts,
                         at |-> k, before |-> <<active_alerts, message_map>>],
                    !.answer =
                        [NoAnswer EXCEPT !.on = TRUE,
                                         !.code = StatusCode(TRUE, 0)]]

NextStorage ==
    \/ \E alerts \in Batches : WebhookReceive("w1", alerts)
    \/ \E ok \in BOOLEAN : SendNotification("w1", ok)
    \/ \E alerts \in Batches, k \in 1..MaxBatch : StorageError("w1", alerts, k)

InitStorage == InitProgram /\ InitHistory /\ env = Env({"error"}, {"w1"}, 0)
SpecStorage == InitStorage /\ [][NextStorage]_vars

(***************************************************************************)
(* The schedule evaluator of the earlier index.js (src/src/index.js:438-   *)
(* 487),                                                                   *)
(* which keeps last_sent as a minute of the day.                           *)
(***************************************************************************)
\* nowUtc.getUTCHours() * 60 + nowUtc.getUTCMinutes()
currentMinutes(t) == (t % Day) \div Minute

\* the entries that parse, as minutes of the day
scheduledMinutes(scheduleStr) ==
    {parseTimeToMinutes(scheduleStr[i]) :
        i \in {j \in DOMAIN scheduleStr :
                  parseTimeToMinutes(scheduleStr[j]) >= 0}}

SetMax(S) == CHOOSE x \in S : \A y \in S : y <= x

\* the scheduled minutes the loop passes: those before the current minute
\* (newestPastTime is the greatest of them, null when there is none)
PastTimes(minutes, current) == {m \in minutes : m < current}

\* checkSchedule(severity, scheduleStr) of that version at minute `current`,
\* up to `await sendSummary(severity)`: whether the summary is sent, for
\* which scheduled minute, and the table as the rollover test leaves it
SummaryDue(tbl, severity, scheduleStr, current) ==
    LET minutes == scheduledMinutes(scheduleStr)
        past == PastTimes(minutes, current)
        newestPastTime == SetMax(past)
        lastSent == getLastSentSchedule(tbl, severity)
        rollover == lastSent >= SetMax(minutes) /\ lastSent > current
        tbl1 == IF rollover THEN setLastSentSchedule(tbl, severity, -1)
                ELSE tbl
    IN  IF scheduleStr = <<>> \/ past = {}
        THEN [fired |-> FALSE, stamp |-> 0, schedules |-> tbl]
        ELSE IF newestPastTime = getLastSentSchedule(tbl1, severity)
        THEN [fired |-> FALSE, stamp |-> 0, schedules |-> tbl1]
        ELSE [fired |-> TRUE, stamp |-> newestPastTime, schedules |-> tbl1]

\* the whole call, the send having returned:
\* setLastSentSchedule(severity, newestPastTime) follows the send
checkScheduleMinutes(tbl, severity, scheduleStr, current) ==
    LET due == SummaryDue(tbl, severity, scheduleStr, current)
    IN  IF due.fired
        THEN [due EXCEPT !.schedules =
                  setLastSentSchedule(due.schedules, severity, due.stamp)]
        ELSE due

\* the summaries triggered so far, each with its day
OldStep(log, res, t) ==
    [on |-> TRUE, at |-> t, again |-> {},
     trig |-> log.trig \cup
        {[severity |-> sev, day |-> DayStart(t), minute |-> res[sev].stamp] :
            sev \in {x \in Severities : res[x].fired}}]

\* One run of the timer of that version at wall clock t, no alert being
\* stored (the mention pass sends nothing): CRIT, then WARN; each summary
\* is sent and last_sent written before the next call.
OldTickAt(t) ==
    /\ tick.pc = "idle"
    /\ now' = t
    /\ LET crit == checkScheduleMinutes(schedules, "CRIT",
                        env.config.SUMMARY_SCHEDULE_CRIT, currentMinutes(t))
           warn == checkScheduleMinutes(crit.schedules, "WARN",
                        env.config.SUMMARY_SCHEDULE_WARN, currentMinutes(t))
       IN  /\ schedules' = warn.schedules
           /\ overrun' = overrun
           /\ hist' = [NoHist EXCEPT !.old =
                           OldStep(hist.old, [CRIT |-> crit, WARN |-> warn], t)]
    /\ Quiet
    /\ UNCHANGED <<active_alerts, message_map, mentionConfig, webhook, reaction,
                   tick, nextEventId, env, since, watch, onceCount, mentionLog,
                   summaryLog, silence, sent, probe>>

OldLateTick(m, j) ==
    LET today == DayStart(now) + m * Minute + j
        t == IF today > now THEN today ELSE today + Day
    IN  /\ t < DayStart(Epoch) + MaxDays * Day
        /\ OldTickAt(t)

\* the minutes of the day at which the timer of that version may run
RolloverMinutes ==
    {5, 6 * 60 + 1, 8 * 60, 8 * 60 + 1, 8 * 60 + 5, 12 * 60, 16 * 60,
     16 * 60 + 1, 17 * 60, 20 * 60, 23 * 60 + 59}

NextRollover ==
    \E m \in RolloverMinutes, j \in TickJitter : OldLateTick(m, j)

InitRollover ==
    /\ InitState /\ active_alerts = {} /\ mentionConfig = [db1 |-> RepeatPolicy]
    /\ InitHistory
    /\ env = [Env({"old"}, {}, 0) EXCEPT !.config = ScheduleConfig]
SpecRollover == InitRollover /\ [][NextRollover]_vars

(***************************************************************************)
(* The same timer, send by send: `await sendSummary(severity)` suspends    *)
(* the run before setLastSentSchedule (src/src/index.js:485-486), and      *)
(* setInterval does not wait for a suspended run: the next run starts a    *)
(* minute later (index.js:494).  No alert is stored: the mention pass      *)
(* sends nothing and sendSummary sends 'No active alerts!'.                *)
(***************************************************************************)
MaxRuns == 5

\* SUMMARY_SCHEDULE_CRIT=0:10,0:12  SUMMARY_SCHEDULE_WARN=0:11,0:13
OverlapConfig ==
    [SUMMARY_SCHEDULE_CRIT |-> <<Time(0, 10), Time(0, 12)>>,
     SUMMARY_SCHEDULE_WARN |-> <<Time(0, 11), Time(0, 13)>>]

\* a run started at wall clock `at`, suspended in the summary send of sev
Sending(sev, at, stamp) ==
    [pc |-> sev, pending |-> 1, at |-> at, stamp |-> stamp]

\* await checkSchedule('WARN', ...), up to its send or to the end of the run
WarnCall(tbl, at, config) ==
    LET due == SummaryDue(tbl, "WARN", config.SUMMARY_SCHEDULE_WARN,
                          currentMinutes(at))
    IN  [run |-> IF due.fired THEN Sending("WARN", at, due.stamp)
                 ELSE IdleTick,
         schedules |-> due.schedules,
         fired |-> IF due.fired
                   THEN {[severity |-> "WARN", day |-> DayStart(at),
                          minute |-> due.stamp]}
                   ELSE {}]

\* await checkSchedule('CRIT', ...), up to its send; without a send the
\* WARN call follows
CritCall(tbl, at, config) ==
    LET due == SummaryDue(tbl, "CRIT", config.SUMMARY_SCHEDULE_CRIT,
                          currentMinutes(at))
    IN  IF due.fired
        THEN [run |-> Sending("CRIT", at, due.stamp),
              schedules |-> due.schedules,
              fired |-> {[severity |-> "CRIT", day |-> DayStart(at),
                          minute |-> due.stamp]}]
        ELSE WarnCall(due.schedules, at, config)

\* the summary send of the run has returned:
\* setLastSentSchedule(severity, newestPastTime), then the rest of the run
Resume(tbl, run, config) ==
    LET tbl1 == setLastSentSchedule(tbl, run.pc, run.stamp)
    IN  IF run.pc = "CRIT" THEN WarnCall(tbl1, run.at, config)
        ELSE [run |-> IdleTick, schedules |-> tbl1, fired |-> {}]

\* the summaries triggered so far, and those triggered twice
OldTrig(log, fired, t) ==
    [on |-> FALSE, at |-> t, trig |-> log.trig \cup fired,
     again |-> log.again \cup (log.trig \cap fired)]

\* the timer fires, no run being suspended
OldRun ==
    /\ tick.pc = "idle"
    /\ now < env.lastTick
    /\ now' = now + Minute
    /\ LET r == CritCall(schedules, now + Minute, env.config)
       IN  /\ tick' = r.run
           /\ schedules' = r.schedules
           /\ hist' = [NoHist EXCEPT !.old = OldTrig(hist.old, r.fired, now')]
    /\ Quiet
    /\ UNCHANGED <<active_alerts, message_map, mentionConfig, webhook, reaction,
                   overrun, nextEventId, env, since, watch, onceCount,
                   mentionLog, summaryLog, silence, sent, probe>>

\* the summary send of the run returns
OldRunSent ==
    /\ tick.pc \in Severities
    /\ LET r == Resume(schedules, tick, env.config)
       IN  /\ tick' = r.run
           /\ schedules' = r.schedules
           /\ hist' = [NoHist EXCEPT !.old = OldTrig(hist.old, r.fired, now)]
    /\ Quiet
    /\ UNCHANGED <<active_alerts, message_map, mentionConfig, now, webhook,
                   reaction, overrun, nextEventId, env, since, watch,
                   onceCount, mentionLog, summaryLog, silence, sent, probe>>

\* the timer fires while the previous run is suspended in a send
OldOverrun ==
    /\ tick.pc \in Severities
    /\ overrun.pc = "idle"
    /\ now < env.lastTick
    /\ now' = now + Minute
    /\ LET r == CritCall(schedules, now + Minute, env.config)
       IN  /\ overrun' = r.run
           /\ schedules' = r.schedules
           /\ hist' = [NoHist EXCEPT !.old = OldTrig(hist.old, r.fired, now')]
    /\ Quiet
    /\ UNCHANGED <<active_alerts, message_map, mentionConfig, webhook, reaction,
                   tick, nextEventId, env, since, watch, onceCount,
                   mentionLog, summaryLog, silence, sent, probe>>

\* the summary send of the overtaking run returns
OldOverrunSent ==
    /\ overrun.pc \in Severities
    /\ LET r == Resume(schedules, overrun, env.config)
       IN  /\ overrun' = r.run
           /\ schedules' = r.schedules
           /\ hist' = [NoHist EXCEPT !.old = OldTrig(hist.old, r.fired, now)]
    /\ Quiet
    /\ UNCHANGED <<active_alerts, message_map, mentionConfig, now, webhook,
                   reaction, tick, nextEventId, env, since, watch,
                   onceCount, mentionLog, summaryLog, silence, sent, probe>>

NextOverlap ==
    \/ OldRun
    \/ OldRunSent
    \/ OldOverrun
    \/ OldOverrunSent

InitOverlap ==
    /\ InitState /\ active_alerts = {} /\ mentionConfig = [db1 |-> RepeatPolicy]
    /\ InitHistory
    /\ env = [Env({"old"}, {}, MaxRuns) EXCEPT !.config = OverlapConfig]
SpecOverlap == InitOverlap /\ [][NextOverlap]_vars

(***************************************************************************)
(* The legacy branch of the webhook handler (README.md:512-528): a payload *)
(* without an alerts array is rendered and sent, no store call is made.    *)
(***************************************************************************)
\* the branch followed by the zombie loop
LegacyStore_prunes(active, map) ==
    PruneZombies([active |-> active, map |-> map], {})

\* what the branch leaves of the tables
LegacyStore(active, map) ==
    [active |-> active, map |-> map]

\* The payload arrives: the message is built and the handler suspends in
\* `await matrix.sendMatrixNotification(matrixMessage)`.
LegacyReceive(h) ==
    /\ webhook[h].pc = "idle"
    /\ h \in env.clients
    /\ webhook' = [webhook EXCEPT ![h] = [IdleWebhook EXCEPT !.pc = "legacy"]]
    /\ Quiet
    /\ UNCHANGED <<active_alerts, message_map, schedules, mentionConfig, now,
                   reaction, tick, nextEventId, env, since, watch, onceCount,
                   mentionLog, summaryLog, silence, sent, probe>>
    /\ overrun' = overrun
    /\ hist' = [NoHist EXCEPT
                    !.answer = Planned(1),
                    !.legacy = [phase |-> "received",
                                before |-> <<active_alerts, message_map,
                                             schedules>>]]

\* The send returns (the event id is not used): 200 'Notification sent'.
LegacySent(h, ok) ==
    /\ webhook[h].pc = "legacy"
    /\ LET tables == LegacyStore(active_alerts, message_map)
       IN  /\ active_alerts' = tables.active
           /\ message_map' = tables.map
    /\ webhook' = [webhook EXCEPT ![h] = IdleWebhook]
    /\ Quiet
    /\ UNCHANGED <<schedules, mentionConfig, now, reaction, tick, nextEventId,
                   env, since, watch, onceCount, mentionLog, summaryLog,
                   silence, sent, probe>>
    /\ overrun' = overrun
    /\ hist' = [NoHist EXCEPT
                    !.answer = Attempt(hist.answer, ok, TRUE),
                    !.legacy = [hist.legacy EXCEPT !.phase = "answered"]]

\* one client, whose requests are batches, legacy payloads, and batches
\* during which a store call throws
NextAnswer ==
    \/ \E alerts \in Batches : WebhookReceive("w1", alerts)
    \/ \E ok \in BOOLEAN : SendNotification("w1", ok)
    \/ \E ok \in BOOLEAN : SendMention("w1", ok)
    \/ \E alerts \in Batches, k \in 1..MaxBatch : StorageError("w1", alerts, k)
    \/ LegacyReceive("w1")
    \/ \E ok \in BOOLEAN : LegacySent("w1", ok)

InitAnswer ==
    /\ InitState /\ mentionConfig = [db1 |-> RepeatPolicy]
    /\ InitHistory /\ env = Env({"answer"}, {"w1"}, 0)
SpecAnswer == InitAnswer /\ [][NextAnswer]_vars

\* the timer runs under an interval policy, requests one at a time
InitRepeat ==
    /\ InitState /\ mentionConfig = [db1 |-> RepeatPolicy]
    /\ InitHistory /\ env = Env({"repeat", "skipped"}, {"w1"}, MaxTicks)

\* the requests and the timer
NextRepeat ==
    \/ \E h \in Handlers, alerts \in Batches : WebhookReceive(h, alerts)
    \/ \E h \in Handlers, ok \in BOOLEAN : SendNotification(h, ok)
    \/ \E h \in Handlers, ok \in BOOLEAN : SendMention(h, ok)
    \/ Tick
    \/ \E ok \in BOOLEAN : TickSend(ok)

SpecRepeat == InitRepeat /\ [][NextRepeat]_vars

(***************************************************************************)
(* One evaluation of checkMention (util.js:55-104) on its own: the         *)
(* arguments are drawn from the sets below, the result is kept in `probe`. *)
(***************************************************************************)
SeverityWords ==
    {"CRIT", "crit", "Crit", "CRITICAL", "critical", "Critical",
     "WARN", "warn", "Warn", "WARNING", "warning", "Warning",
     "info", "critic", ""}                \* "" for an alert without severity

\* which class of the policy carries the delay and repeat under test; the
\* fields of the other class say "never" (delay -1)
Variants == {"crit", "warn", "both"}

Strategies == {"webhook", "loop"}

\* <<>> for a key that the policy lacks
DelayValues == {<<>>, <<-1>>, <<0>>, <<2>>}
RepeatValues == {<<>>, <<-1>>, <<0>>, <<2>>}

\* how long before `now` the alert started
Durations == {0, Minute, 2 * Minute - 1, 2 * Minute, 3 * Minute}

\* how long before `now` the last mention was recorded, 0 for none
LastSentAges == {0, Minute, 2 * Minute, 3 * Minute}

ProbeAlert(sev, type, duration, age) ==
    [fingerprint |-> "a", status |-> "firing",
     labels |-> IF sev = ""
                THEN [alertname |-> "HighCPU", host |-> "db1"]
                ELSE [alertname |-> "HighCPU", host |-> "db1",
                      severity |-> sev],
     annotations |-> [summary |-> "s1"],
     startsAt |-> now - duration,
     mentionsSent |-> IF age = 0 THEN NeverSent
                      ELSE [k \in {"primary", "secondary", LastSentKey(type)} |->
                               IF k = LastSentKey(type) THEN now - age
                               ELSE FALSE]]

ProbeConf(variant, type, delay, repeat) ==
    LET classes == IF variant = "both" THEN {"crit", "warn"} ELSE {variant}
        others == {"crit", "warn"} \ classes
        delayKeys == {DelayKey(c, type) : c \in classes}
        repeatKeys == {RepeatKey(c, type) : c \in classes}
        neverKeys == {DelayKey(c, type) : c \in others}
        keys == {"primary", "secondary"} \cup neverKeys
                \cup (IF delay = <<>> THEN {} ELSE delayKeys)
                \cup (IF repeat = <<>> THEN {} ELSE repeatKeys)
    IN  [k \in keys |->
            IF k = "primary" THEN {"@alice"}
            ELSE IF k = "secondary" THEN {"@bob"}
            ELSE IF k \in neverKeys THEN -1
            ELSE IF k \in delayKeys THEN delay[1]
            ELSE repeat[1]]

Evaluate(sev, variant, type, strategy, delay, repeat, duration, age) ==
    /\ LET alert == ProbeAlert(sev, type, duration, age)
           res == checkMention(ProbeConf(variant, type, delay, repeat),
                               alert, type, strategy, now)
       IN  probe' = [on |-> TRUE, severity |-> sev, variant |-> variant,
                     type |-> type, strategy |-> strategy, delay |-> delay,
                     repeat |-> repeat, duration |-> duration, age |-> age,
                     fired |-> res.fired,
                     lastSent |-> LastSent(res.alert, type)]
    /\ UNCHANGED <<active_alerts, message_map, schedules, mentionConfig, now,
                   webhook, reaction, tick, nextEventId, env, evlog, since,
                   renotified, watch, completed, twice, onceCount, mentionLog,
                   summaryLog, silence, sent, hist, overrun>>

\* one evaluation per run
NextMention ==
    /\ ~probe.on
    /\ \E sev \in SeverityWords, variant \in Variants, type \in Types,
          strategy \in Strategies, delay \in DelayValues,
          repeat \in RepeatValues, duration \in Durations,
          age \in LastSentAges :
            Evaluate(sev, variant, type, strategy, delay, repeat, duration,
                     age)

InitMention ==
    /\ InitProgram /\ active_alerts = {}
    /\ InitHistory /\ env = Env({"probe"}, {}, 0)
SpecMention == InitMention /\ [][NextMention]_vars

(***************************************************************************)
(* Specifications that keep a history.  The requests are serial where the  *)
(* question is about one pass of the dedup loop or about one request.      *)
(***************************************************************************)
InitDedup == InitProgram /\ InitHistory /\ env = Env({"dedup"}, {"w1"}, 1)
SpecDedup == InitDedup /\ [][Next]_vars

InitStore ==
    /\ InitProgram /\ InitHistory
    /\ env = [Env({"dedup"}, Handlers, 1) EXCEPT !.batch = MaxBrief]
SpecStore == InitStore /\ [][Next]_vars

\* the requests, the reactions and the restart; the timer does not run
NextRequests ==
    \/ \E h \in Handlers, alerts \in Batches : WebhookReceive(h, alerts)
    \/ \E h \in Handlers, ok \in BOOLEAN : SendNotification(h, ok)
    \/ \E h \in Handlers, ok \in BOOLEAN : SendMention(h, ok)
    \/ \E eventId \in 1..MaxEventIds, configured \in BOOLEAN :
          ReactionMute(eventId, configured)
    \/ SilenceConfirmed
    \/ Restart

InitSince ==
    /\ InitState /\ mentionConfig = [db1 |-> RepeatPolicy]
    /\ InitHistory /\ env = Env({"since"}, Handlers, 0)
SpecSince == InitSince /\ [][NextRequests]_vars

InitTwice == InitProgram /\ InitHistory /\ env = Env({"twice"}, {"w1"}, 1)
SpecTwice == InitTwice /\ [][Next]_vars

InitDone == InitProgram /\ InitHistory /\ env = Env({"done"}, {"w1"}, 1)
SpecDone == InitDone /\ [][Next]_vars

InitOnce == InitProgram /\ InitHistory /\ env = Env({"once"}, {"w1"}, MaxTicks)
SpecOnce == InitOnce /\ [][Next]_vars

(***************************************************************************)
(* Properties.                                                             *)
(***************************************************************************)
Events == {evlog[i] : i \in DOMAIN evlog}

AllIdle ==
    /\ \A h \in Handlers : webhook[h].pc = "idle"
    /\ reaction.pc = "idle"

RefreshedBySecond ==
    \A fp \in twice.recv :
        /\ Cardinality({r \in active_alerts : r.id = fp}) = 1
        /\ \A d \in AlertRows(active_alerts, fp) : Payload(d) = twice.payload[fp]

\* C2 as stated: handling a batch of firing events twice in a row sends
\* exactly one individual notification per fingerprint in total, the second
\* handling adds none, and one alert per fingerprint is stored with the
\* payload of the second delivery.
C2_ExactlyOneInTotal ==
    twice.on =>
        /\ \A fp \in twice.recv :
              /\ twice.first[fp] + twice.second[fp] = 1
              /\ twice.second[fp] = 0
        /\ RefreshedBySecond

\* C2, amended: handling a batch of firing events twice in a row sends, per
\* fingerprint, exactly one individual notification in total when the
\* fingerprint was not stored before the first handling and none when it
\* was; the second handling adds none; one alert per fingerprint is stored,
\* with the payload of the second delivery.
C2_IdempotentDelivery ==
    twice.on =>
        /\ \A fp \in twice.recv :
              /\ twice.first[fp] + twice.second[fp]
                    = (IF fp \in twice.pre THEN 0 ELSE 1)
              /\ twice.second[fp] = 0
        /\ RefreshedBySecond

\* a batch with a fingerprint that was not stored has been handled twice
C2_Witness ==
    /\ twice.on
    /\ \E fp \in twice.recv : fp \notin twice.pre /\ twice.first[fp] = 1

\* C3: after the handling of a batch has completed, the store holds no alert
\* and the message map no entry whose fingerprint is absent from the batch.
C3_NoZombieAfterBatch ==
    completed.done =>
        /\ \A r \in active_alerts : r.id \in completed.recv
        /\ \A m \in message_map : m.alert_id \in completed.recv

\* C4: a firing event whose fingerprint is not stored is put on the
\* individual-notify list and stored under its fingerprint, and the stored
\* mention record reads as never sent for both types.
C4_NewFiring ==
    \A e \in Events :
        (e.status = "firing" /\ ~e.had) =>
            /\ e.listed
            /\ Cardinality(e.after) = 1
            /\ \A d \in e.after :
                  /\ d.fingerprint = e.fingerprint
                  /\ LastSent(d, "primary") = 0
                  /\ LastSent(d, "secondary") = 0

\* a new firing event has just been processed
C4_Witness ==
    \E e \in Events : e.status = "firing" /\ ~e.had /\ e.listed

\* C5: a firing event whose fingerprint is stored is not put on the
\* individual-notify list, and the mention record stored after the event is
\* the one stored before it.
C5_DuplicateFiring ==
    \A e \in Events :
        (e.status = "firing" /\ e.had) =>
            /\ e.grown = 0
            /\ e.after # {}
            /\ {d.mentionsSent : d \in e.after}
                  = {d.mentionsSent : d \in e.before}

\* a duplicate of an alert whose mention record is not the initial one
C5_Witness ==
    \E e \in Events :
        /\ e.status = "firing" /\ e.had /\ e.grown = 0
        /\ \E d \in e.before : d.mentionsSent # NeverSent

\* C6: after a resolved event whose fingerprint is stored, the store and the
\* message map have nothing under the fingerprint and the event is on the
\* individual-notify list.
C6_Resolution ==
    \A e \in Events :
        (e.status = "resolved" /\ e.had) =>
            /\ e.after = {}
            /\ ~e.mapped
            /\ e.listed

\* a stored alert with a tracked message has just been resolved
C6_Witness ==
    \E e \in Events :
        e.status = "resolved" /\ e.had /\ e.wasMapped /\ e.after = {}

\* C7: a resolved event whose fingerprint is not stored is put on the
\* individual-notify list and changes neither table.
C7_ResolvedUnknown ==
    \A e \in Events :
        (e.status = "resolved" /\ ~e.had) => (e.listed /\ e.framed)

\* a resolved event for a fingerprint that is not stored but still has a
\* message-map entry
C7_Witness ==
    \E e \in Events :
        e.status = "resolved" /\ ~e.had /\ e.wasMapped /\ e.listed

\* C8: when no webhook or silence handler is suspended, every message-map
\* entry points to a fingerprint that is stored as an active alert.
C8_MapRefersToActive ==
    AllIdle =>
        \A m \in message_map : hasActiveAlert(active_alerts, m.alert_id)

\* at most one row per fingerprint, and every stored alert is firing
StoreWellFormed ==
    /\ \A r1, r2 \in active_alerts : r1.id = r2.id => r1 = r2
    /\ \A r \in active_alerts :
          r.data.status = "firing" /\ r.data.fingerprint = r.id

\* a fingerprint enters the store only in a dedup loop that processes a
\* firing event of it
InsertedByFiring ==
    \A fp \in Fingerprints :
        (fp \notin StoredIds(active_alerts) /\ fp \in StoredIds(active_alerts'))
            => \E i \in DOMAIN evlog' :
                  evlog'[i].fingerprint = fp /\ evlog'[i].status = "firing"

\* C9: the store holds at most one alert per fingerprint, every stored alert
\* has status firing, and an alert that is not stored is stored again only
\* by a new firing event for it.
C9_StoreInvariant ==
    []StoreWellFormed /\ [][InsertedByFiring]_vars

\* the row of a stored fingerprint has just been written again with another
\* payload
C9_Witness ==
    \E e \in Events :
        /\ e.status = "firing" /\ e.had
        /\ e.before # e.after /\ Cardinality(e.after) = 1

\* C10: while an alert stays stored, a mention type whose repeat value is
\* negative fires at most once over all tick and webhook evaluations.
C10_OnceAtMostOnce ==
    \A fp \in Fingerprints : \A ty \in Types : onceCount[fp][ty] <= 1

\* C11: under a repeat value R > 0 a tick evaluation that fires a mention
\* leaves the stored alert's last_sent_<type> at now, and two tick
\* evaluations less than R minutes apart never both fire for the same alert
\* and type.
C11_RepeatInterval ==
    mentionLog.early = {} /\ mentionLog.stale = {}

(***************************************************************************)
(* Mention policy, one evaluation (SpecMention).                           *)
(***************************************************************************)
CritWords == {"CRIT", "crit", "Crit", "CRITICAL", "critical", "Critical"}
WarnWords == {"WARN", "warn", "Warn", "WARNING", "warning", "Warning"}

\* the class named by the severity of the evaluated alert
ProbeClass ==
    IF probe.severity \in CritWords THEN "crit"
    ELSE IF probe.severity \in WarnWords THEN "warn" ELSE "none"

\* the delay and repeat drawn for the evaluation are the applicable ones
UnderTest ==
    probe.on /\ ProbeClass # "none" /\ probe.variant \in {ProbeClass, "both"}

\* delay >= 0 and duration >= delay
DelayElapsed ==
    /\ probe.delay # <<>>
    /\ probe.delay[1] >= 0
    /\ probe.duration >= probe.delay[1] * Minute

\* the repeat setting lets the type fire in this context with this last_sent
AllowsFiring ==
    \/ probe.repeat = <<>> /\ probe.strategy = "webhook"
    \/ probe.repeat = <<0>> /\ probe.strategy = "loop"
    \/ /\ probe.repeat # <<>>
       /\ probe.repeat[1] < 0
       /\ probe.age = 0
    \/ /\ probe.repeat # <<>>
       /\ probe.repeat[1] > 0
       /\ (probe.age = 0 \/ probe.age >= probe.repeat[1] * Minute)

\* C12: with the repeat value absent (or null) and the delay elapsed, the
\* mention type fires in webhook context and does not fire in tick context,
\* whatever last_sent the alert carries.
C12_RepeatAbsent ==
    UnderTest /\ DelayElapsed /\ probe.repeat = <<>>
        => probe.fired = (probe.strategy = "webhook")

\* fired in webhook context although a mention was recorded a minute ago
C12_Witness ==
    /\ UnderTest /\ DelayElapsed /\ probe.repeat = <<>>
    /\ probe.strategy = "webhook" /\ probe.age = Minute /\ probe.fired

\* C13: with repeat 0 and the delay elapsed, the mention type fires on every
\* tick evaluation and on no webhook evaluation.
C13_RepeatZero ==
    UnderTest /\ DelayElapsed /\ probe.repeat = <<0>>
        => probe.fired = (probe.strategy = "loop")

\* C14: a negative delay never fires; with delay D >= 0 the type is not due
\* while less than D minutes have passed since the start, and is due from
\* exactly D minutes on, in both contexts, whenever the repeat setting lets
\* it fire.
C14_DelayBoundary ==
    UnderTest /\ probe.delay # <<>>
        => /\ probe.delay[1] < 0 => ~probe.fired
           /\ probe.duration < probe.delay[1] * Minute => ~probe.fired
           /\ DelayElapsed /\ AllowsFiring => probe.fired

\* fired at exactly D = 2 minutes since the start
C14_Witness ==
    /\ UnderTest /\ probe.delay = <<2>>
    /\ probe.duration = 2 * Minute /\ probe.fired

\* the fields of one class say when to fire, those of the other say never
Fires == (probe.delay = <<>> \/ DelayElapsed) /\ AllowsFiring

\* C15: the CRIT fields decide for exactly the severities CRIT and CRITICAL
\* in any case, the WARN fields for exactly WARN and WARNING in any case,
\* and an alert with another severity or none is never mentioned.
C15_SeverityClasses ==
    probe.on
        => /\ ProbeClass = "none" => ~probe.fired
           /\ \A class \in {"crit", "warn"} :
                probe.variant = class
                    => /\ probe.fired => ProbeClass = class
                       /\ ProbeClass = class /\ Fires => probe.fired

\* a mixed-case long form is mentioned under the CRIT fields
C15_Witness ==
    /\ probe.on /\ probe.severity = "Critical" /\ probe.variant = "crit"
    /\ probe.fired

(***************************************************************************)
(* Scheduled summaries (SpecSchedule).                                     *)
(***************************************************************************)
Schedule(sev) ==
    IF sev = "CRIT" THEN env.config.SUMMARY_SCHEDULE_CRIT
    ELSE env.config.SUMMARY_SCHEDULE_WARN

Triggered(sev, T) == [severity |-> sev, stamp |-> T] \in summaryLog.trig

\* the scheduled timestamps of the day of the timer run that has just ended
StampsOfRun(sev) == ScheduledTimestamps(Schedule(sev), summaryLog.last.at)

AtOrBefore(sev) ==
    {T \in StampsOfRun(sev) :
        T <= summaryLog.last.at /\ T > summaryLog.last.before[sev]}
StrictlyBefore(sev) ==
    {T \in StampsOfRun(sev) :
        T < summaryLog.last.at /\ T > summaryLog.last.before[sev]}

C18_NoCatchUp ==
    \A sev \in Severities : ~summaryLog.catchup[sev]

(***************************************************************************)
(* Silence by reaction (SpecSilence).                                      *)
(***************************************************************************)
\* C19: when the Grafana silence call fails (missing Grafana settings, a
\* response that is not OK, or an exception), the handling of the mute
\* reaction leaves the active-alert table and the message map as they were.
C19_FailureLeavesState ==
    (silence.done /\ silence.result # "true")
        => silence.before = silence.after

(***************************************************************************)
(* Recording of sent messages (SpecSent).                                  *)
(***************************************************************************)
\* C20: a send that returns an event id for the notification of a firing
\* alert adds the row event id -> fingerprint of that alert to the message
\* map; a send for a resolved notification or a persistent mention, or a
\* send that returns no id, adds nothing; an event id is mapped to one
\* fingerprint.
C20_MessageMapRecording ==
    /\ sent.on
        => IF sent.kind = "firing" /\ sent.id # 0
           THEN sent.added = {[event_id |-> sent.id,
                               alert_id |-> sent.fingerprint]}
           ELSE sent.added = {}
    /\ \A r1 \in message_map : \A r2 \in message_map :
          r1.event_id = r2.event_id => r1 = r2

\* the notification of a firing alert was sent and its event id recorded
C20_Witness ==
    /\ sent.on /\ sent.kind = "firing" /\ sent.id # 0
    /\ getAlertIdFromEvent(message_map, sent.id) = sent.fingerprint

(***************************************************************************)
(* The store across a restart (SpecRestart).                               *)
(***************************************************************************)
\* the first event of the batch for its fingerprint
FirstOf(i) == \A j \in 1..(i - 1) : evlog[j].fingerprint # evlog[i].fingerprint

\* C21: in the first batch after a start of the process, a firing event of
\* an alert that was stored at the start is not notified individually; and
\* no scheduled timestamp triggers its summary twice, whatever restarts lie
\* between the timer runs.
C21_RestartWithoutFlood ==
    /\ hist.restart.phase = "redelivered"
        => \A i \in DOMAIN evlog :
              (/\ evlog[i].status = "firing"
               /\ evlog[i].fingerprint \in hist.restart.stored
               /\ FirstOf(i))
                  => ~NotifiedFiring(evlog[i])
    /\ summaryLog.again = {}

\* a stored alert is redelivered after a restart that followed the trigger
\* of a summary
C21_Witness ==
    /\ hist.restart.phase = "redelivered"
    /\ summaryLog.trig # {}
    /\ \E i \in DOMAIN evlog :
          /\ evlog[i].status = "firing"
          /\ evlog[i].fingerprint \in hist.restart.stored

(***************************************************************************)
(* The stored alert follows the payload (SpecDedup).                       *)
(***************************************************************************)
\* the stored alerts d that carry the labels, annotations and start time of
\* the event e
Carries(d, e) ==
    /\ d.labels = LabelsOf(e.fingerprint)
    /\ d.annotations = e.annotations
    /\ d.startsAt = e.startsAt

\* C25: after a firing event has been processed, new or duplicate, the one
\* alert stored under its fingerprint carries the labels, annotations and
\* start time of that event; after the batch it carries those of the last
\* firing event of the fingerprint, unless a resolved event followed.
C25_StoreRefresh ==
    \A i \in DOMAIN evlog :
        evlog[i].status = "firing"
            => /\ \E d \in evlog[i].after :
                    evlog[i].after = {d} /\ Carries(d, evlog[i])
               /\ (\A j \in DOMAIN evlog :
                        evlog[j].fingerprint = evlog[i].fingerprint => j <= i)
                    => \A d \in AlertRows(active_alerts, evlog[i].fingerprint) :
                          Carries(d, evlog[i])

\* a duplicate with other annotations than the stored alert has replaced it
C25_Witness ==
    \E e \in Events :
        /\ e.status = "firing" /\ e.had
        /\ \E d \in e.before : d.annotations # e.annotations
        /\ \E d \in e.after : Carries(d, e)

(***************************************************************************)
(* Mentions of duplicates in webhook context (SpecRepeat).                 *)
(***************************************************************************)
\* C29: every duplicate-firing alert of a batch whose policy fires in
\* webhook context is put into a persistent-mention message, also when the
\* batch holds new-firing or resolved events.
C29_EveryDuplicateEvaluated ==
    hist.skipped = {}

(***************************************************************************)
(* One read per decision (SpecSilence).                                    *)
(***************************************************************************)
\* C27: no store write of another handler falls between the read a decision
\* is based on and its write: the alert the silence workflow deletes (the
\* handler takes its success branch on every outcome of the Grafana call) is
\* the record that was read when the mute reaction was handled.
C27_DeletesWhatWasRead ==
    silence.done
        => AlertRows(silence.before[1], silence.id) = silence.read

(***************************************************************************)
(* A schedule string without an entry that parses (SpecMalformed).         *)
(***************************************************************************)
\* C24: a malformed schedule string behaves as the default schedule
\* "6:00,14:30": the timer run that has just ended triggered the CRIT summary
\* exactly if checkSchedule with the default schedule, on the last_sent the
\* run found, triggers it.
C24_MalformedIsDefault ==
    summaryLog.last.on
        => summaryLog.last.fired["CRIT"]
            = checkSchedule({[severity |-> "CRIT",
                              last_sent |-> summaryLog.last.before["CRIT"]]},
                            "CRIT", DefaultSchedule, summaryLog.last.at).fired

(***************************************************************************)
(* Storage errors (SpecStorage).                                           *)
(***************************************************************************)
\* C23: a storage error raised while one alert of a batch is processed
\* aborts only that alert: the tables are what the loop makes of the batch
\* without that alert, and the handler goes on to send what that loop has
\* to notify.
C23_ErrorAbortsOneAlert ==
    hist.error.on =>
        LET st == FilterAndDeduplicate(
                    [active |-> hist.error.before[1],
                     map |-> hist.error.before[2],
                     notify |-> <<>>, seen |-> <<>>, log |-> <<>>],
                    Without(hist.error.alerts, hist.error.at))
        IN  /\ active_alerts = st.active
            /\ st.notify # <<>> => webhook[hist.error.handler].pc = "notify"

(***************************************************************************)
(* The answer of the webhook handler (SpecAnswer).                         *)
(***************************************************************************)
\* C22: a request that has just been answered got 500 exactly if an error
\* was raised while it was processed and 200 otherwise, also when sends
\* failed; when it ran to its end every send it had to make was attempted
\* once, whatever the earlier sends returned.
C22_AnswerAndFailedSends ==
    /\ hist.answer.on =>
          /\ hist.answer.code = (IF hist.error.on THEN 500 ELSE 200)
          /\ ~hist.error.on => hist.answer.attempts = hist.answer.planned
    /\ hist.answer.attempts <= hist.answer.planned
    /\ hist.answer.failed <= hist.answer.attempts

C22_Witness ==
    /\ hist.answer.on /\ hist.answer.code = 200
    /\ hist.answer.planned = 2 /\ hist.answer.failed = 2
    /\ hist.legacy.phase = "none"

\* C26: a legacy payload that has just been answered made one send, and the
\* active alerts, the message map and the schedule records are what they
\* were when it arrived: no stored alert was pruned.
C26_LegacyBypassesStore ==
    hist.legacy.phase = "answered" =>
        /\ hist.answer.attempts = 1
        /\ <<active_alerts, message_map, schedules>> = hist.legacy.before

C26_Witness ==
    /\ hist.legacy.phase = "answered"
    /\ active_alerts # {} /\ message_map # {}

(***************************************************************************)
(* The minute-of-day evaluator across midnight (SpecRollover).             *)
(***************************************************************************)
\* C30: in the evaluator that stores last_sent as a minute of the day, a
\* timer run after a scheduled time T of its day finds the summary of T
\* triggered, by itself or by an earlier run of that day, for every
\* severity, T being the latest scheduled time before the run.
C30_FiresEachDay ==
    hist.old.on =>
        \A sev \in Severities :
            LET str == IF sev = "CRIT" THEN env.config.SUMMARY_SCHEDULE_CRIT
                       ELSE env.config.SUMMARY_SCHEDULE_WARN
                past == PastTimes(scheduledMinutes(str),
                                  currentMinutes(hist.old.at))
            IN  past # {} =>
                    [severity |-> sev, day |-> DayStart(hist.old.at),
                     minute |-> SetMax(past)] \in hist.old.trig

(***************************************************************************)
(* Overlapping runs of the timer (SpecOverlap).                            *)
(***************************************************************************)
\* C28: the trigger of a scheduled time is written to the store before the
\* summary send starts, so no severity and scheduled time of a day triggers
\* a summary twice, also when a run of the timer starts while the previous
\* run is suspended in a send.
C28_OneSummaryPerTrigger ==
    hist.old.again = {}

(***************************************************************************)
(* The schedule records of an installation that ran the minute-of-day      *)
(* version of the timer (src/src/index.js:438-487) until the day before:   *)
(* a row of that version holds the scheduled minute that triggered last    *)
(* (index.js:486), here 8:00 or 16:00 for CRIT and 8:00 for WARN; a        *)
(* severity that never triggered has no row.  The timer of the present     *)
(* version then runs over these rows (SpecUpgrade).                        *)
(***************************************************************************)
LegacyRows(sev, minutes) ==
    {{}} \cup {{[severity |-> sev, last_sent |-> m]} : m \in minutes}

LegacyTables ==
    {crit \cup warn :
        crit \in LegacyRows("CRIT", {8 * 60, 16 * 60}),
        warn \in LegacyRows("WARN", {8 * 60})}

\* the minutes of the day at which the timer is followed
UpgradeMinutes == {7 * 60, 8 * 60, 8 * 60 + 5, 16 * 60 + 1, 17 * 60}

NextUpgrade == \E m \in UpgradeMinutes, j \in TickJitter : LateTick(m, j)

InitUpgrade ==
    /\ active_alerts \in {{}, {[id |-> "a", data |-> LegacyAlert]}}
    /\ message_map = {}
    /\ schedules \in LegacyTables
    /\ now = Epoch
    /\ webhook = [h \in Handlers |-> IdleWebhook]
    /\ reaction = IdleReaction
    /\ tick = IdleTick
    /\ overrun = IdleTick
    /\ nextEventId = 1
    /\ mentionConfig \in MentionConfigs
    /\ InitHistory
    /\ env = [Env({"summary"}, {}, 0) EXCEPT !.config = ScheduleConfig]
SpecUpgrade == InitUpgrade /\ [][NextUpgrade]_vars

\* the scheduled timestamps of the day of the run that lie before the run
PastOfRun(sev) == {T \in StampsOfRun(sev) : T < summaryLog.last.at}

\* C31: a stored minute-of-day value of a previous day does not suppress
\* today's summaries: once the timer has run strictly after a scheduled
\* time of today, the earliest scheduled time of today has triggered.
C31_LegacyDoesNotSuppress ==
    summaryLog.last.on
        => \A sev \in Severities :
              PastOfRun(sev) # {} => Triggered(sev, SetMin(PastOfRun(sev)))

\* C32: the persisted last-fired value of a severity never decreases over a
\* timer run, the conversion of a minute-of-day value included, and a
\* trigger strictly increases it.
C32_RecordMonotone ==
    summaryLog.last.on
        => \A sev \in Severities :
              /\ getLastSentSchedule(schedules, sev)
                    >= summaryLog.last.before[sev]
              /\ summaryLog.last.fired[sev]
                    => getLastSentSchedule(schedules, sev)
                            > summaryLog.last.before[sev]

\* a run converted the minute-of-day value 8:00 of CRIT and triggered the
\* 16:00 summary over it
C32_Witness ==
    /\ summaryLog.last.on
    /\ summaryLog.last.before["CRIT"] = 8 * 60
    /\ summaryLog.last.fired["CRIT"]
    /\ getLastSentSchedule(schedules, "CRIT")
            = getScheduleTimestamp(16 * 60, summaryLog.last.at)

MaxUsers == 2

Users == {"alice", "bob"}

\* the order of Array.prototype.sort() on these names (UTF-16 code units)
UserRank(u) == IF u = "alice" THEN 1 ELSE 2

\* the arrays a policy may hold under one key: any order, repetitions too
UserLists == UNION {[1..n -> Users] : n \in 0..MaxUsers}

\* [...new Set(list)]: each value once, at the place of its first occurrence
RECURSIVE NewSet(_)
NewSet(list) ==
    IF list = <<>> THEN <<>>
    ELSE LET front == NewSet(SubSeq(list, 1, Len(list) - 1))
             last == list[Len(list)]
         IN  IF \E i \in DOMAIN front : front[i] = last THEN front
             ELSE Append(front, last)

\* the array left as it is
sort_unsorted(list) == list

\* list.sort()
RECURSIVE sort(_)
sort(list) ==
    IF list = <<>> THEN <<>>
    ELSE LET rest == sort(Tail(list))
             k == Cardinality({i \in DOMAIN rest :
                                  UserRank(rest[i]) <= UserRank(Head(list))})
         IN  SubSeq(rest, 1, k) \o <<Head(list)>>
                \o SubSeq(rest, k + 1, Len(rest))

\* users.join(','): the names with a comma between two of them
RECURSIVE join(_)
join(users) ==
    IF Len(users) <= 1 THEN users
    ELSE <<Head(users), ",">> \o join(Tail(users))

\* usersToMention of one alert as pushed: conf.secondary if the secondary
\* mention fires, then conf.primary if the primary mention fires
PushedUsers(config, alert, strategy, t) ==
    LET conf == config[HostOf(alert)]
        fired == FiredTypes(config, alert, strategy, t)
    IN  (IF "secondary" \in fired THEN conf.secondary ELSE <<>>)
            \o (IF "primary" \in fired THEN conf.primary ELSE <<>>)

\* the array `mentions` after the loop over the first n alerts
RECURSIVE Mentions(_, _, _, _, _)
Mentions(config, alerts, strategy, t, n) ==
    IF n = 0 THEN <<>>
    ELSE LET before == Mentions(config, alerts, strategy, t, n - 1)
             alert == alerts[n]
             usersToMention ==
                 IF HasPolicy(config, alert)
                 THEN NewSet(PushedUsers(config, alert, strategy, t))
                 ELSE <<>>
         IN  IF usersToMention = <<>> THEN before
             ELSE Append(before, [id |-> alert.fingerprint,
                                  users |-> sort(usersToMention)])

\* sortAlertsByUsers(mentions) after the first n items: the groups in the
\* order their keys were created, each with the users of its first item
RECURSIVE GroupsByKey(_, _)
GroupsByKey(mentions, n) ==
    IF n = 0 THEN <<>>
    ELSE LET groups == GroupsByKey(mentions, n - 1)
             item == mentions[n]
             key == join(item.users)
             at == {i \in DOMAIN groups : groups[i].key = key}
         IN  IF at = {}
             THEN Append(groups, [key |-> key, users |-> item.users,
                                  alerts |-> <<item.id>>])
             ELSE [i \in DOMAIN groups |->
                    IF i \in at
                    THEN [groups[i] EXCEPT !.alerts = Append(@, item.id)]
                    ELSE groups[i]]

\* checkMentionMessages(alerts, strategy): messagesToReturn, each message
\* by the alerts it lists and the users it calls on
MentionMessages(config, alerts, strategy, t) ==
    LET mentions == Mentions(config, alerts, strategy, t, Len(alerts))
        groups == GroupsByKey(mentions, Len(mentions))
    IN  [i \in DOMAIN groups |->
            [alerts |-> groups[i].alerts, users |-> groups[i].users]]

\* a policy without repeat keys: in the webhook context a critical alert
\* calls on both lists, a warning on the primary list only
GroupPolicy(primary, secondary) ==
    [primary |-> primary, secondary |-> secondary,
     delay_crit_primary |-> 0, delay_crit_secondary |-> 0,
     delay_warn_primary |-> 0, delay_warn_secondary |-> -1]

GroupConfigs ==
    {[db1 |-> GroupPolicy(p1, s1), db2 |-> GroupPolicy(p2, <<>>)] :
        p1 \in UserLists, s1 \in UserLists, p2 \in UserLists}

GroupAlert(fp, host, sev) ==
    [fingerprint |-> fp, status |-> "firing",
     labels |-> [alertname |-> "HighCPU", host |-> host, severity |-> sev],
     annotations |-> [summary |-> "s1"],
     startsAt |-> now, mentionsSent |-> NeverSent]

\* what an alert of the evaluated list may be: web1 has no policy, info is
\* a severity no policy speaks of
AlertKinds ==
    {<<"db1", "critical">>, <<"db1", "warning">>, <<"db2", "critical">>,
     <<"web1", "critical">>, <<"db1", "info">>}

GroupIds == <<"a", "b", "c">>

\* one call of checkMentionMessages(alerts, "webhook") on three alerts
Group(kinds) ==
    LET alerts == [i \in DOMAIN GroupIds |->
                      GroupAlert(GroupIds[i], kinds[i][1], kinds[i][2])]
    IN  /\ probe' = [on |-> TRUE, alerts |-> alerts,
                     messages |-> MentionMessages(mentionConfig, alerts,
                                                  "webhook", now)]
        /\ UNCHANGED <<active_alerts, message_map, schedules, mentionConfig,
                       now, webhook, reaction, tick, nextEventId, env, evlog,
                       since, renotified, watch, completed, twice, onceCount,
                       mentionLog, summaryLog, silence, sent>>
        /\ overrun' = overrun
        /\ hist' = NoHist

NextGroup ==
    /\ ~probe.on
    /\ \E kinds \in [DOMAIN GroupIds -> AlertKinds] : Group(kinds)

InitGroup ==
    /\ InitState /\ active_alerts = {}
    /\ mentionConfig \in GroupConfigs
    /\ InitHistory /\ env = Env({"probe"}, {}, 0)
SpecGroup == InitGroup /\ [][NextGroup]_vars

\* the set of users the alert calls on: the members of the secondary list
\* if the secondary mention fires and of the primary list if the primary
\* mention fires
UserSetOf(alert) ==
    UNION {Range(mentionConfig[HostOf(alert)][ty]) :
              ty \in FiredTypes(mentionConfig, alert, "webhook", now)}

MentionedAlerts == {a \in Range(probe.alerts) : UserSetOf(a) # {}}

\* C33: an alert whose user set is empty is in no message, every other alert
\* is in exactly one message, in it once, next to exactly the alerts with
\* the same user set, and the message calls on exactly that set; there are
\* as many messages as distinct user sets.  What is sent depends on the
\* sets only, not on the order of the users in the config file or of the
\* alerts.
C33_OneMessagePerUserSet ==
    probe.on
        => LET msgs == probe.messages
               In(fp, i) == \E k \in DOMAIN msgs[i].alerts :
                                msgs[i].alerts[k] = fp
           IN  /\ \A a \in Range(probe.alerts) \ MentionedAlerts :
                    \A i \in DOMAIN msgs : ~In(a.fingerprint, i)
               /\ \A a \in MentionedAlerts :
                    \E i \in DOMAIN msgs :
                        /\ In(a.fingerprint, i)
                        /\ \A j \in DOMAIN msgs :
                              In(a.fingerprint, j) => j = i
                        /\ Cardinality({k \in DOMAIN msgs[i].alerts :
                              msgs[i].alerts[k] = a.fingerprint}) = 1
                        /\ Range(msgs[i].users) = UserSetOf(a)
                        /\ Len(msgs[i].users) = Cardinality(UserSetOf(a))
                        /\ \A b \in MentionedAlerts :
                              In(b.fingerprint, i)
                                  <=> UserSetOf(b) = UserSetOf(a)
               /\ Len(msgs) = Cardinality({UserSetOf(a) : a \in MentionedAlerts})

\* db1 lists bob before alice with bob twice over its two lists, db2 lists
\* alice before bob: the critical alerts of both hosts share one message,
\* a warning of db1 (primary list only) has its own
C33_Witness ==
    /\ probe.on
    /\ mentionConfig.db1.primary = <<"bob">>
    /\ mentionConfig.db1.secondary = <<"bob", "alice">>
    /\ mentionConfig.db2.primary = <<"alice", "bob">>
    /\ Len(probe.messages) = 2
    /\ \E i \in DOMAIN probe.messages :
          /\ probe.messages[i].alerts = <<"a", "c">>
          /\ probe.messages[i].users = <<"alice", "bob">>
    /\ probe.alerts[2].labels.severity = "warning"

(***************************************************************************)
(* The timer and the store.  The present timer (README.md:540-559) calls   *)
(* no store function on the alert tables.  The timer of the minute-of-day  *)
(* version (src/src/index.js:345-436) evaluates the mentions inline, with   *)
(* the branches checkMention takes for the strategy "loop", and writes an  *)
(* alert back whose last_sent_* it has set (`dirty`, index.js:415-417).    *)
(* SpecTimers follows both timers next to the webhook.                     *)
(***************************************************************************)
\* the dirty alert stored under another key than its fingerprint
StoreDirty_byHost(tbl, alert) == setActiveAlert(tbl, HostOf(alert), alert)

\* const id = alert.fingerprint; ... if (dirty) setActiveAlert(id, alert);
StoreDirty(tbl, alert) == setActiveAlert(tbl, alert.fingerprint, alert)

\* the alert object after both inline checkMention calls at wall clock t
OldMarked(config, alert, t) ==
    IF ~HasPolicy(config, alert) THEN alert
    ELSE LET conf == config[HostOf(alert)]
             sec == checkMention(conf, alert, "secondary", "loop", t)
         IN  checkMention(conf, sec.alert, "primary", "loop", t).alert

\* the active-alert table after the loop over getAllActiveAlerts() has
\* passed the alerts of `todo`
RECURSIVE OldMarks(_, _, _, _)
OldMarks(tbl, todo, config, t) ==
    IF todo = {} THEN tbl
    ELSE LET alert == CHOOSE a \in todo : TRUE
             marked == OldMarked(config, alert, t)
             tbl1 == IF marked # alert THEN StoreDirty(tbl, marked) ELSE tbl
         IN  OldMarks(tbl1, todo \ {alert}, config, t)

\* the schedule part of that timer, each summary sent and recorded
OldSchedules(tbl, t) ==
    LET crit == checkScheduleMinutes(tbl, "CRIT",
                    env.config.SUMMARY_SCHEDULE_CRIT, currentMinutes(t))
    IN  checkScheduleMinutes(crit.schedules, "WARN",
            env.config.SUMMARY_SCHEDULE_WARN, currentMinutes(t)).schedules

\* a run of that timer starts: the mention loop, then the first send; with
\* nothing to send the schedule part follows at once
OldMentionRun ==
    /\ tick.pc = "idle"
    /\ now < env.lastTick
    /\ now' = now + Minute
    /\ LET alerts == getAllActiveAlerts(active_alerts)
           messages == checkMentionMessages(mentionConfig, alerts, "loop",
                                            now')
       IN  /\ active_alerts' = OldMarks(active_alerts, alerts, mentionConfig,
                                        now')
           /\ tick' = IF messages = {} THEN IdleTick
                      ELSE [pc |-> "old-sending",
                            pending |-> Cardinality(messages)]
           /\ schedules' = IF messages = {} THEN OldSchedules(schedules, now')
                           ELSE schedules
    /\ Quiet
    /\ UNCHANGED <<message_map, mentionConfig, webhook, reaction, nextEventId,
                   env, since, watch, onceCount, mentionLog, summaryLog,
                   silence, sent, probe>>
    /\ overrun' = overrun
    /\ hist' = NoHist

\* one send of that run returns; after the last one the schedule part runs
OldMentionSent(ok) ==
    /\ tick.pc = "old-sending"
    /\ tick' = IF tick.pending = 1 THEN IdleTick
               ELSE [tick EXCEPT !.pending = @ - 1]
    /\ schedules' = IF tick.pending = 1 THEN OldSchedules(schedules, now)
                    ELSE schedules
    /\ Quiet
    /\ UNCHANGED <<active_alerts, message_map, mentionConfig, now, webhook,
                   reaction, nextEventId, env, since, watch, onceCount,
                   mentionLog, summaryLog, silence, sent, probe>>
    /\ overrun' = overrun
    /\ hist' = NoHist

NextTimers ==
    \/ \E alerts \in Batches : WebhookReceive("w1", alerts)
    \/ \E ok \in BOOLEAN : SendNotification("w1", ok)
    \/ \E ok \in BOOLEAN : SendMention("w1", ok)
    \/ Tick
    \/ \E ok \in BOOLEAN : TickSend(ok)
    \/ OldMentionRun
    \/ \E ok \in BOOLEAN : OldMentionSent(ok)

InitTimers ==
    /\ InitState /\ mentionConfig = [db1 |-> RepeatPolicy]
    /\ InitHistory /\ env = Env({}, {"w1"}, MaxTicks)
SpecTimers == InitTimers /\ [][NextTimers]_vars

\* a step of a timer run: the run starts (the clock has moved on) or one of
\* its sends returns
TimerStep == now' # now \/ tick' # tick

MuteWhileSuspended(eventId, configured) ==
    /\ reaction.pc = "confirm"
    /\ ~probe.on
    /\ hasMessageMap(message_map, eventId)
    /\ hasActiveAlert(active_alerts, getAlertIdFromEvent(message_map, eventId))
    /\ probe' = [on |-> TRUE, pc |-> "confirm",
                 alertId |-> getAlertIdFromEvent(message_map, eventId),
                 first |-> reaction.alertId,
                 result |-> sendGrafanaSilence(configured)]
    /\ Quiet
    /\ UNCHANGED <<active_alerts, message_map, schedules, mentionConfig, now,
                   webhook, reaction, tick, nextEventId, env, since, watch,
                   onceCount, mentionLog, summaryLog, silence, sent>>
    /\ overrun' = overrun
    /\ hist' = NoHist

\* The confirmation of that workflow was sent: deleteActiveAlert and
\* deleteMessageMapByAlertId.
SecondConfirmed ==
    /\ probe.on /\ probe.pc = "confirm"
    /\ active_alerts' = deleteActiveAlert(active_alerts, probe.alertId)
    /\ message_map' = deleteMessageMapByAlertId(message_map, probe.alertId)
    /\ probe' = [probe EXCEPT !.pc = "done"]
    /\ Quiet
    /\ UNCHANGED <<schedules, mentionConfig, now, webhook, reaction, tick,
                   nextEventId, env, since, watch, onceCount, mentionLog,
                   summaryLog, silence, sent>>
    /\ overrun' = overrun
    /\ hist' = NoHist

NextMute ==
    \/ \E alerts \in Batches : WebhookReceive("w1", alerts)
    \/ \E ok \in BOOLEAN : SendNotification("w1", ok)
    \/ \E ok \in BOOLEAN : SendMention("w1", ok)
    \/ \E eventId \in 1..MaxEventIds, configured \in BOOLEAN :
          ReactionMute(eventId, configured)
    \/ SilenceConfirmed
    \/ \E eventId \in 1..MaxEventIds, configured \in BOOLEAN :
          MuteWhileSuspended(eventId, configured)
    \/ SecondConfirmed

InitMute ==
    /\ InitState /\ mentionConfig = [db1 |-> RepeatPolicy]
    /\ InitHistory /\ env = Env({}, {"w1"}, 0)
SpecMute == InitMute /\ [][NextMute]_vars

\* C36: a mute reaction that is handled while the silence workflow of an
\* earlier one is suspended starts no second workflow (no second silence
\* call, no second confirmation message) for the same stored alert.
C36_OneSilencePerAlert ==
    probe.on => probe.alertId # probe.first

(***************************************************************************)
(* Two deliveries at once (SpecPair): both webhook requests may be in      *)
(* flight, nothing else runs.  The dedup loop has no await                 *)
(* (README.md:448-474): a request that arrives while another is suspended  *)
(* in a send finds what the loop of that one has stored.                   *)
(***************************************************************************)
NextPair ==
    \/ \E h \in Handlers, alerts \in Batches : WebhookReceive(h, alerts)
    \/ \E h \in Handlers, ok \in BOOLEAN : SendNotification(h, ok)
    \/ \E h \in Handlers, ok \in BOOLEAN : SendMention(h, ok)

InitPair ==
    /\ InitState /\ mentionConfig = [db1 |-> RepeatPolicy]
    /\ InitHistory /\ env = Env({"dedup", "twice"}, Handlers, 0)
SpecPair == InitPair /\ [][NextPair]_vars

\* request g is suspended, it arrived with firing alerts only, no other
\* request has arrived since, and fp is a fingerprint of its batch that was
\* not stored when it arrived
FirstCarries(g, fp) ==
    /\ webhook[g].pc # "idle"
    /\ watch[g].solo /\ watch[g].firing
    /\ fp \in webhook[g].recv
    /\ fp \notin watch[g].pre

\* the loop that has just run was over firing alerts only, fp among them
ThenCarries(log, fp) ==
    /\ log # <<>>
    /\ \A i \in DOMAIN log : log[i].status = "firing"
    /\ \E i \in DOMAIN log : log[i].fingerprint = fp

\* C37: when a request with a firing alert of a fingerprint that is not
\* stored is suspended and a second request with a firing alert of that
\* fingerprint arrives, the first has classified it as new and put it on its
\* notify list once, and the second finds it stored and classifies it as a
\* duplicate, without an individual notification.
C37_OneNewFiring ==
    [][\A g \in Handlers, fp \in Fingerprints :
          (FirstCarries(g, fp) /\ ThenCarries(evlog', fp))
              => /\ watch[g].fired[fp] = 1
                 /\ \A i \in DOMAIN evlog' :
                       evlog'[i].fingerprint = fp
                           => evlog'[i].had /\ ~NotifiedFiring(evlog'[i])]_vars

\* the second request has just been answered as a duplicate while the
\* first, which has the fingerprint on its notify list, is still suspended
C37_Witness ==
    \E g \in Handlers, fp \in Fingerprints :
        /\ webhook[g].pc = "notify"
        /\ \A h \in Handlers \ {g} : webhook[h].pc = "idle"
        /\ watch[g].firing /\ ~watch[g].solo
        /\ watch[g].fired[fp] = 1 /\ fp \notin watch[g].pre
        /\ Len(evlog) = 1
        /\ evlog[1].fingerprint = fp /\ evlog[1].status = "firing"
        /\ evlog[1].had /\ ~NotifiedFiring(evlog[1])

(***************************************************************************)
(* The process stops between the store write and the send (SpecCrash).     *)
(* The dedup loop has stored the new alerts (README.md:448-474); the       *)
(* notifications of webhook[h].toNotify are not sent yet when the process  *)
(* stops (README.md:487-498).  The start that follows finds the database   *)
(* file as it was left.  `probe` keeps the fingerprints whose firing       *)
(* notification was lost that way.                                         *)
(***************************************************************************)
\* the fingerprints of the firing alerts the request has yet to notify
Unsent(h) ==
    {webhook[h].toNotify[i].fingerprint :
        i \in {j \in DOMAIN webhook[h].toNotify :
                  webhook[h].toNotify[j].status = "firing"}}

CrashBeforeSend(h) ==
    /\ ~probe.on
    /\ webhook[h].pc = "notify"
    /\ Unsent(h) # {}
    /\ probe' = [on |-> TRUE, lost |-> Unsent(h)]
    /\ webhook' = [g \in Handlers |-> IdleWebhook]
    /\ reaction' = IdleReaction
    /\ tick' = IdleTick
    /\ watch' = [g \in Handlers |-> Unwatched]
    /\ active_alerts' = initDB(active_alerts)
    /\ message_map' = initDB(message_map)
    /\ schedules' = initDB(schedules)
    /\ silence' = NoSilence
    /\ Quiet
    /\ UNCHANGED <<mentionConfig, now, nextEventId, env, since, onceCount,
                   mentionLog, summaryLog, sent>>
    /\ overrun' = IdleTick
    /\ hist' = NoHist

NextCrash ==
    \/ \E alerts \in Batches : WebhookReceive("w1", alerts)
    \/ \E ok \in BOOLEAN : SendNotification("w1", ok)
    \/ \E ok \in BOOLEAN : SendMention("w1", ok)
    \/ \E eventId \in 1..MaxEventIds, configured \in BOOLEAN :
          ReactionMute(eventId, configured)
    \/ SilenceConfirmed
    \/ CrashBeforeSend("w1")

InitCrash ==
    /\ InitState /\ mentionConfig = [db1 |-> RepeatPolicy]
    /\ InitHistory /\ env = Env({"dedup", "since"}, {"w1"}, 0)
SpecCrash == InitCrash /\ [][NextCrash]_vars

CommandWords == {"crit", "WARNING", "info"}

\* the alerts sendSummary(severity) lists
SummaryAlerts(tbl, severity) ==
    {alert \in getAllActiveAlerts(tbl) :
        LET sev == toUpperCase(getAlertValue(alert, "severity", "UNKNOWN"))
        IN  IF isCritical(severity) THEN isCritical(sev)
            ELSE IF isWarn(severity) THEN isWarn(sev)
            ELSE sev = severity}

\* the summary recorded as sent for its severity, as a triggered one is
ManualSummary_recorded(tbl, severity, t) ==
    setLastSentSchedule(tbl, severity, t)

\* the schedules table after sendSummary(severity) at wall clock t:
\* sendSummary calls no store function but getAllActiveAlerts
ManualSummary(tbl, severity, t) == tbl

\* a message `.summary <word>` of another user arrives: the handler
\* suspends in sendReaction
SummaryCommand(word) ==
    /\ ~probe.on
    /\ probe' = [on |-> TRUE, pc |-> "react", severity |-> toUpperCase(word),
                 alerts |-> {}]
    /\ Quiet
    /\ UNCHANGED <<active_alerts, message_map, schedules, mentionConfig, now,
                   webhook, reaction, tick, nextEventId, env, since, watch,
                   onceCount, mentionLog, summaryLog, silence, sent>>
    /\ overrun' = overrun
    /\ hist' = NoHist

\* the reaction was sent (or failed, sendReaction catches): sendSummary
\* collects the alerts and suspends in the send of the message
SummaryCollect ==
    /\ probe.on /\ probe.pc = "react"
    /\ probe' = [probe EXCEPT
                    !.pc = "send",
                    !.alerts = {a.fingerprint :
                        a \in SummaryAlerts(active_alerts, probe.severity)}]
    /\ schedules' = ManualSummary(schedules, probe.severity, now)
    /\ Quiet
    /\ UNCHANGED <<active_alerts, message_map, mentionConfig, now, webhook,
                   reaction, tick, nextEventId, env, since, watch, onceCount,
                   mentionLog, summaryLog, silence, sent>>
    /\ overrun' = overrun
    /\ hist' = NoHist

\* the send of the summary returns, with an event id or null
SummarySent(ok) ==
    /\ probe.on /\ probe.pc = "send"
    /\ probe' = [probe EXCEPT !.pc = IF ok THEN "sent" ELSE "failed"]
    /\ Quiet
    /\ UNCHANGED <<active_alerts, message_map, schedules, mentionConfig, now,
                   webhook, reaction, tick, nextEventId, env, since, watch,
                   onceCount, mentionLog, summaryLog, silence, sent>>
    /\ overrun' = overrun
    /\ hist' = NoHist

NextCommand ==
    \/ \E alerts \in Batches : WebhookReceive("w1", alerts)
    \/ \E ok \in BOOLEAN : SendNotification("w1", ok)
    \/ \E ok \in BOOLEAN : SendMention("w1", ok)
    \/ Tick
    \/ \E ok \in BOOLEAN : TickSend(ok)
    \/ \E word \in CommandWords : SummaryCommand(word)
    \/ SummaryCollect
    \/ \E ok \in BOOLEAN : SummarySent(ok)

InitCommand ==
    /\ InitState /\ mentionConfig = [db1 |-> RepeatPolicy]
    /\ InitHistory /\ env = Env({}, {"w1"}, 1)
SpecCommand == InitCommand /\ [][NextCommand]_vars

\* C40: no step of the handling of a `.summary <severity>` command changes
\* the schedule record of any severity, the active-alert table or the
\* message map.
C40_CommandKeepsState ==
    [][probe' # probe
          => /\ schedules' = schedules
             /\ active_alerts' = active_alerts
             /\ message_map' = message_map]_vars

\* a summary of the critical alerts was sent on command, listing a stored
\* alert, the timer having written the schedule records before
C40_Witness ==
    /\ probe.on /\ probe.pc = "sent"
    /\ probe.severity = "CRIT" /\ probe.alerts = {"a"}
    /\ \A sev \in Severities : getLastSentSchedule(schedules, sev) # -1

(***************************************************************************)
(* The Matrix sync loop (matrix.js:49-100).  The constructor calls loop(); *)
(* an iteration awaits getUserId (while userId is not set), getNextBatch,  *)
(* and hasUserReacted for every message event of the room's timeline;      *)
(* whatever is thrown is caught, and the catch block awaits a timer of     *)
(* five seconds; then setImmediate schedules the next iteration.  `probe`  *)
(* is the MatrixServer object and the position of its loop (SpecSync).     *)
(* nextBatch "" stands for null.                                           *)
(***************************************************************************)
MaxEvents == 2

\* setTimeout(r, 5000)
Backoff == 5000

\* the values of next_batch the homeserver hands out
Tokens == {"s1", "s2"}

\* a timeline event of the room: a reaction, a message of another user, a
\* message of the bot itself
EventKinds == {"reaction", "message", "own"}

\* timeline.events of a sync response; "malformed" is a response whose
\* timeline cannot be iterated (the for loop throws)
Timelines ==
    UNION {[1..n -> EventKinds] : n \in 0..MaxEvents} \cup {<<"malformed">>}

\* the error caught and the next iteration scheduled at once
Caught_noBackoff(loop, cause) ==
    [loop EXCEPT !.pc = "immediate", !.error = TRUE, !.cause = cause]

\* catch (error): the iteration ends in the backoff timer
Caught(loop, cause) ==
    [loop EXCEPT !.pc = "backoff", !.error = TRUE, !.cause = cause,
                 !.events = <<>>]

\* the for loop over the events from the first one on, up to the next await
\* (hasUserReacted of a message event) or to its end; a reaction is emitted
\* on the way
RECURSIVE Process(_)
Process(loop) ==
    IF loop.events = <<>> THEN [loop EXCEPT !.pc = "immediate"]
    ELSE IF Head(loop.events) = "reaction"
    THEN Process([loop EXCEPT !.events = Tail(@),
                              !.emitted = Append(@, "reaction")])
    ELSE [loop EXCEPT !.pc = "relations"]

\* loop() is called: by the constructor, or by setImmediate
LoopStart ==
    /\ IF probe.on THEN probe.pc = "immediate" ELSE TRUE
    /\ probe' =
        LET loop == IF probe.on THEN probe
                    ELSE [on |-> TRUE, pc |-> "immediate", userId |-> "",
                          nextBatch |-> "", before |-> "", error |-> FALSE,
                          cause |-> "", waited |-> 0, events |-> <<>>,
                          emitted |-> <<>>]
        IN  [loop EXCEPT !.pc = IF loop.userId = "" THEN "whoami" ELSE "sync",
                         !.before = loop.nextBatch,
                         !.error = FALSE, !.cause = "", !.waited = 0,
                         !.emitted = <<>>]
    /\ Quiet
    /\ UNCHANGED <<active_alerts, message_map, schedules, mentionConfig, now,
                   webhook, reaction, tick, nextEventId, env, since, watch,
                   onceCount, mentionLog, summaryLog, silence, sent>>
    /\ overrun' = overrun
    /\ hist' = NoHist

\* await this.getUserId() returns or throws
WhoamiReturns(ok) ==
    /\ probe.on /\ probe.pc = "whoami"
    /\ probe' = IF ok THEN [probe EXCEPT !.userId = "@bot", !.pc = "sync"]
                ELSE Caught(probe, "whoami")
    /\ Quiet
    /\ UNCHANGED <<active_alerts, message_map, schedules, mentionConfig, now,
                   webhook, reaction, tick, nextEventId, env, since, watch,
                   onceCount, mentionLog, summaryLog, silence, sent>>
    /\ overrun' = overrun
    /\ hist' = NoHist

\* await this.getNextBatch(...) returns the response or throws; with the
\* response this.nextBatch is set and the events are gone through
SyncReturns(ok, token, timeline) ==
    /\ probe.on /\ probe.pc = "sync"
    /\ probe' =
        IF ~ok THEN Caught(probe, "sync")
        ELSE LET got == [probe EXCEPT !.nextBatch = token]
             IN  IF timeline = <<"malformed">> THEN Caught(got, "events")
                 ELSE Process([got EXCEPT !.events = timeline])
    /\ Quiet
    /\ UNCHANGED <<active_alerts, message_map, schedules, mentionConfig, now,
                   webhook, reaction, tick, nextEventId, env, since, watch,
                   onceCount, mentionLog, summaryLog, silence, sent>>
    /\ overrun' = overrun
    /\ hist' = NoHist

\* await this.hasUserReacted(event.event_id, ...) returns (it catches what
\* it throws): the message is passed on unless it was reacted to or is the
\* bot's own, and the for loop goes on
RelationsReturns(alreadyReacted) ==
    /\ probe.on /\ probe.pc = "relations"
    /\ probe' =
        Process([probe EXCEPT
                    !.events = Tail(@),
                    !.emitted =
                        IF ~alreadyReacted /\ Head(probe.events) = "message"
                        THEN Append(@, "userMessage") ELSE @])
    /\ Quiet
    /\ UNCHANGED <<active_alerts, message_map, schedules, mentionConfig, now,
                   webhook, reaction, tick, nextEventId, env, since, watch,
                   onceCount, mentionLog, summaryLog, silence, sent>>
    /\ overrun' = overrun
    /\ hist' = NoHist

\* the timer of the catch block fires: setImmediate(() => this.loop())
BackoffElapsed ==
    /\ probe.on /\ probe.pc = "backoff"
    /\ probe' = [probe EXCEPT !.pc = "immediate", !.waited = Backoff]
    /\ Quiet
    /\ UNCHANGED <<active_alerts, message_map, schedules, mentionConfig, now,
                   webhook, reaction, tick, nextEventId, env, since, watch,
                   onceCount, mentionLog, summaryLog, silence, sent>>
    /\ overrun' = overrun
    /\ hist' = NoHist

NextSync ==
    \/ LoopStart
    \/ \E ok \in BOOLEAN : WhoamiReturns(ok)
    \/ \E ok \in BOOLEAN, token \in Tokens, timeline \in Timelines :
          SyncReturns(ok, token, timeline)
    \/ \E alreadyReacted \in BOOLEAN : RelationsReturns(alreadyReacted)
    \/ BackoffElapsed

InitSync == InitProgram /\ InitHistory /\ env = Env({}, {}, 0)

\* every await of the loop returns or throws, every timer fires and
\* setImmediate runs its callback
SpecSync == InitSync /\ [][NextSync]_vars /\ WF_vars(NextSync)

\* C35: the loop never stops: at every time an iteration is running, waits
\* in the backoff or is scheduled, and again and again a next iteration is
\* scheduled; an iteration that raised an error is followed by the next one
\* only after the backoff of five seconds; and an iteration in which the
\* whoami or the sync request failed leaves nextBatch as it found it.
C35_PerpetualLoop ==
    /\ [](probe.on
            => /\ probe.pc \in {"whoami", "sync", "relations", "backoff",
                                "immediate"}
               /\ (probe.error /\ probe.cause \in {"whoami", "sync"})
                     => probe.nextBatch = probe.before)
    /\ [][(probe'.pc = "immediate" /\ probe'.error)
             => /\ probe.pc = "backoff"
                /\ probe'.waited = Backoff]_vars
    /\ []<>(probe.on /\ probe.pc = "immediate")

\* a sync request failed after an earlier one had set nextBatch: the
\* backoff has passed, the next iteration is scheduled and nextBatch is
\* still the token of the earlier response
C35_Witness ==
    /\ probe.on /\ probe.pc = "immediate"
    /\ probe.error /\ probe.cause = "sync" /\ probe.waited = Backoff
    /\ probe.nextBatch = "s1" /\ probe.before = "s1"

====
